---- MODULE Spec2Model ----
(***************************************************************************)
(* Local-first storage synchronisation engine of intentionality-web:       *)
(* SyncQueue (src/lib/sync/sync-queue.ts), SyncWorker (sync-worker.ts),    *)
(* RemoteStorageAdapter, LocalStorageAdapter, StorageManager and the       *)
(* bootstrap in hooks/use-tasks.ts.                                        *)
(*                                                                         *)
(* One step of the model is one macrotask of the single-threaded event     *)
(* loop: a handler runs from its entry (or from the settlement of the      *)
(* promise it awaits) up to its next network await.                        *)
(***************************************************************************)
EXTENDS Integers, Sequences, FiniteSets, TLC

VARIABLES
  queue,        \* SyncQueue.queue: the in-memory array of QueuedOperation
  stored,       \* localStorage["sync_queue"]: the persisted queue
  nextId,       \* number of ids generateId() has handed out, plus one
  local,        \* localStorage, one entry per entity collection key
  remote,       \* the remote database, one table per collection key
  online,       \* navigator.onLine
  intervalId,   \* SyncWorker.intervalId !== null
  timers,       \* number of intervals installed by setInterval and not cleared
  isProcessing, \* SyncWorker.isProcessing
  batch,        \* the batch of the pass in progress (result of getNextBatch)
  pos,          \* index in batch of the operation being executed, 0 if none
  inflight,     \* ids of the operations whose remote call is issued, unsettled
  bootPc,       \* position of the session bootstrap (constructor, loadData)
  bootOps,      \* history: ids of the operations pending when loadData ran
  enableRemoteSync, \* StorageManager.enableRemoteSync
  medium,       \* condition of window.localStorage: "ok", "full" or "absent"
  calls,        \* history: number of StorageManager calls the driver has made
  views,        \* per browser tab, the collections held in its Redux store
  notes,        \* per browser tab, the storage events queued for its listener
  peerQueue,    \* SyncQueue.queue of the manager of a second tab
  event         \* history: what the last step did

vars == <<queue, stored, nextId, local, remote, online, intervalId, timers,
          isProcessing, batch, pos, inflight, bootPc, bootOps,
          enableRemoteSync, medium, calls, views, notes, peerQueue,
          event>>

\* The configuration of the session, fixed once the page is loaded, and the
\* call count of the facade driver.
facadeVars == <<enableRemoteSync, medium, calls>>

workerVars == <<isProcessing, batch, pos, inflight>>

\* The state of the two-tab specifications.
tabVars == <<views, notes, peerQueue>>

----------------------------------------------------------------------------
(* Bounds of the model *)

MaxOps == 2        \* operations ever enqueued in one behaviour
MaxTime == 2       \* Date.now() readings are drawn from 1..MaxTime
MaxFetchFail == 1  \* fetches of one pull that get no 2xx answer
MaxFail == 4       \* the queue driver stops calling markFailed at this count
MaxCalls == 2      \* StorageManager calls made by the facade driver
MaxReorder == 2    \* records of one reorder call, rows of a remote table
MaxRemoteCalls == 1 \* RemoteStorageAdapter calls made by its driver
MaxVal == 2        \* field values of an entity on the wire are 1..MaxVal
MaxBacklog == 11   \* operations queued when the drain starts

(* Program constants *)

BatchSize == 10
maxRetries == 3

----------------------------------------------------------------------------
(* Data *)

Keys == {"tasks", "projects", "tags", "task_tags", "project_tags", "today"}

\* The edits of the modelled session are task creations.
OpTypes == {"ADD_TASK"}

Times == 1..MaxTime

\* The rows every remote table holds at page load: one record created on
\* another device.
RemoteRows == {0}

\* The collection an operation type writes to.
KeyOf(type) == IF type = "ADD_TASK" THEN "tasks" ELSE "projects"

Min(a, b) == IF a < b THEN a ELSE b

Ids(q) == {q[i].id : i \in 1..Len(q)}

Ev(name, id, info, keys) ==
  [name |-> name, id |-> id, info |-> info, keys |-> keys]

\* The label of a step no property needs to recognise.
Other == Ev("other", 0, "", {})

----------------------------------------------------------------------------
(* SyncQueue *)

\* localStorage.getItem("sync_queue") when the key was never written: null.
NoItem == [present |-> FALSE, text |-> <<>>]

persistQueueWritesNothing(q) == [present |-> TRUE, text |-> <<>>]

persistQueuePendingOnly(q) ==
  [present |-> TRUE, text |-> SelectSeq(q, LAMBDA op : op.status = "pending")]

\* persistQueue: the item written is JSON.stringify of the whole array.  Every
\* field of an operation is a string or a number and the payloads are plain
\* JSON data, so the text determines the array.
persistQueue(q) == [present |-> TRUE, text |-> q]

\* loadQueue: the constructor starts from [] and replaces it by JSON.parse of
\* the item when there is one.
loadQueue(item) == IF item.present THEN item.text ELSE <<>>

QueuedOperation(id, type, payload, ts) ==
  [id |-> id, type |-> type, payload |-> payload, timestamp |-> ts,
   retries |-> 0, status |-> "pending"]

enqueue(q, id, type, payload, ts) ==
  Append(q, QueuedOperation(id, type, payload, ts))

\* Array.prototype.sort with (a, b) => a.timestamp - b.timestamp: stable.
\* The position the sort gives to the element at index i: after the
\* elements with a smaller timestamp and the earlier ones with the same.
RankByTimestamp(s, i) ==
  Cardinality({j \in 1..Len(s) :
                 \/ s[j].timestamp < s[i].timestamp
                 \/ s[j].timestamp = s[i].timestamp /\ j <= i})

SortByTimestamp(s) ==
  [r \in 1..Len(s) |-> s[CHOOSE i \in 1..Len(s) : RankByTimestamp(s, i) = r]]

getNextBatchAnyStatus(q, batchSize) ==
  LET sorted == SortByTimestamp(q)
  IN  SubSeq(sorted, 1, Min(batchSize, Len(sorted)))

getNextBatchUnsorted(q, batchSize) ==
  LET pending == SelectSeq(q, LAMBDA op : op.status = "pending")
  IN  SubSeq(pending, 1, Min(batchSize, Len(pending)))

getNextBatch(q, batchSize) ==
  LET pending == SelectSeq(q, LAMBDA op : op.status = "pending")
      sorted == SortByTimestamp(pending)
  IN  SubSeq(sorted, 1, Min(batchSize, Len(sorted)))

markCompleteKeepsOnlyId(q, operationId) ==
  SelectSeq(q, LAMBDA op : op.id = operationId)

markCompleteRemovesNothing(q, operationId) == q

markComplete(q, operationId) ==
  SelectSeq(q, LAMBDA op : op.id # operationId)

markFailedKeepsRetries(q, operationId) ==
  [i \in 1..Len(q) |->
     IF q[i].id = operationId THEN [q[i] EXCEPT !.status = "failed"] ELSE q[i]]

markFailedAsProcessing(q, operationId) ==
  [i \in 1..Len(q) |->
     IF q[i].id = operationId
     THEN [q[i] EXCEPT !.status = "processing", !.retries = @ + 1]
     ELSE q[i]]

markFailed(q, operationId) ==
  [i \in 1..Len(q) |->
     IF q[i].id = operationId
     THEN [q[i] EXCEPT !.status = "failed", !.retries = @ + 1]
     ELSE q[i]]

retryFailedInclusive(q) ==
  [i \in 1..Len(q) |->
     IF q[i].status = "failed" /\ q[i].retries <= maxRetries
     THEN [q[i] EXCEPT !.status = "pending"]
     ELSE q[i]]

retryFailedAll(q) ==
  [i \in 1..Len(q) |->
     IF q[i].status = "failed" THEN [q[i] EXCEPT !.status = "pending"] ELSE q[i]]

retryFailed(q) ==
  [i \in 1..Len(q) |->
     IF q[i].status = "failed" /\ q[i].retries < maxRetries
     THEN [q[i] EXCEPT !.status = "pending"]
     ELSE q[i]]

clearQueue(q) == <<>>

getPendingCount(q) == Len(SelectSeq(q, LAMBDA op : op.status = "pending"))

getFailedCount(q) == Len(SelectSeq(q, LAMBDA op : op.status = "failed"))

----------------------------------------------------------------------------
(* RemoteStorageAdapter *)

\* How the network answers one request: a 2xx response, a non-2xx response
\* (fetch() still resolves), or a network error (fetch() rejects).
Outcomes == {"ok", "http", "net"}

\* addTask, addProject, ...: the write methods await fetch() and never look at
\* response.ok, so they reject only when fetch() itself rejects.
WriteRejects(outcome) == outcome = "net"

\* getTasks, getProjects, ...: handleResponse throws on a non-2xx response.
\* getTodayTasks catches every failure and returns [] instead.
ReadRejects(key, outcome) == key # "today" /\ outcome # "ok"

ReadResult(key, outcome, db) ==
  IF outcome = "ok" THEN db[key] ELSE {}

\* The effect of a request on the remote tables: only a 2xx POST inserts.
RemoteApply(db, op, outcome) ==
  IF outcome = "ok"
  THEN [db EXCEPT ![KeyOf(op.type)] = @ \cup {op.payload}]
  ELSE db

----------------------------------------------------------------------------
(* LocalStorageAdapter *)

\* The conditions of window.localStorage: usable; setItem throws (quota
\* exceeded); not there at all (window is undefined, or the localStorage
\* getter throws).
Media == {"ok", "full", "absent"}

\* writeToStorage, and the setItem of persistQueue: returns at once without
\* window, catches what setItem throws; the item is replaced only when the
\* medium takes the write.
writeToStorage(m, old, new) == IF m = "ok" THEN new ELSE old

readFromStorageDefault(m, item, defaultValue) == defaultValue

\* readFromStorage: the default without window, or when getItem or
\* JSON.parse throws, or when there is no item; the parsed item otherwise.
\* A collection never written is held in the model as its default.
readFromStorage(m, item, defaultValue) ==
  IF m = "absent" THEN defaultValue ELSE item

\* addTask / addProject: read the collection, push, write it back.
LocalAdd(store, key, rec) == [store EXCEPT ![key] = @ \cup {rec}]

LocalUpdateUpserts(store, key, id, completed) ==
  [store EXCEPT ![key] =
     {r \in @ : r.id # id}
       \cup {[id |-> id, completed |-> completed, order |-> 0]}]

\* updateTask / updateProject / updateTag: merge the updates into the record
\* with that id; nothing is written when there is none.
LocalUpdate(store, key, id, completed) ==
  [store EXCEPT ![key] =
     {IF r.id = id THEN [r EXCEPT !.completed = completed] ELSE r : r \in @}]

\* deleteTask / deleteProject / deleteTag: filter the id out.
LocalDelete(store, key, id) ==
  [store EXCEPT ![key] = {r \in @ : r.id # id}]

\* reorderTasks / reorderProjects: the records listed take the order given.
LocalReorder(store, key, id, order) ==
  [store EXCEPT ![key] =
     {IF r.id = id THEN [r EXCEPT !.order = order] ELSE r : r \in @}]

\* A tag link as stored: the owner (taskId or projectId) and the tag.  The
\* two link collections are arrays, in the order of insertion.
Link(owner, tag) == [owner |-> owner, tag |-> tag]

LinkKeys == {"task_tags", "project_tags"}

\* The collections of a medium nothing was written to.
EmptyStore == [k \in Keys |-> IF k \in LinkKeys THEN <<>> ELSE {}]

LocalAddLinkNoCheck(store, key, owner, tag) ==
  [store EXCEPT ![key] = Append(@, Link(owner, tag))]

\* addTaskTag / addProjectTag: read the array, look for a link of the same
\* owner and tag, and push and write only when there is none.
LocalAddLink(store, key, owner, tag) ==
  IF \E i \in 1..Len(store[key]) :
       store[key][i].owner = owner /\ store[key][i].tag = tag
  THEN store
  ELSE [store EXCEPT ![key] = Append(@, Link(owner, tag))]

\* removeTaskTag / removeProjectTag: filter the pair out and write.
LocalRemoveLink(store, key, owner, tag) ==
  [store EXCEPT ![key] =
     SelectSeq(@, LAMBDA l : ~(l.owner = owner /\ l.tag = tag))]

\* The browser tabs of the two-tab specification.
Tabs == {"A", "B"}

\* Redux stores as createSlice initialises them, and no storage event queued.
NoViews == [t \in Tabs |-> EmptyStore]

NoNotes == [t \in Tabs |-> <<>>]

\* saveTodayTasks, its write: the list replaces the stored one.
LocalSaveToday(store, list) == [store EXCEPT !["today"] = list]

----------------------------------------------------------------------------
(* SyncWorker *)

\* The remote calls issued when the loop of processQueue reaches position p:
\* executeOperation is awaited, so exactly the call of batch[p].
DispatchAll(b, p) == {b[i].id : i \in p..Len(b)}

Dispatch(b, p) == {b[p].id}

PassResultNoGuard ==
  IF ~online THEN "offline"
  ELSE IF getNextBatch(queue, BatchSize) = <<>> THEN "empty"
  ELSE "started"

\* What processQueue does on entry.
PassResult ==
  IF isProcessing THEN "busy"
  ELSE IF ~online THEN "offline"
  ELSE IF getNextBatch(queue, BatchSize) = <<>> THEN "empty"
  ELSE "started"

processQueueIgnoresOffline ==
  IF PassResult \in {"started", "offline"}
     /\ getNextBatch(queue, BatchSize) # <<>>
  THEN /\ isProcessing' = TRUE
       /\ batch' = getNextBatch(queue, BatchSize)
       /\ pos' = 1
       /\ inflight' = Dispatch(getNextBatch(queue, BatchSize), 1)
  ELSE UNCHANGED workerVars

processQueueHoldsGuardOnEmpty ==
  IF PassResult = "started"
  THEN /\ isProcessing' = TRUE
       /\ batch' = getNextBatch(queue, BatchSize)
       /\ pos' = 1
       /\ inflight' = Dispatch(getNextBatch(queue, BatchSize), 1)
  ELSE /\ isProcessing' = (isProcessing \/ PassResult = "empty")
       /\ UNCHANGED <<batch, pos, inflight>>

\* processQueue from its entry to its first await.  With an empty batch the
\* function sets and clears isProcessing without suspending.
processQueue ==
  IF PassResult = "started"
  THEN /\ isProcessing' = TRUE
       /\ batch' = getNextBatch(queue, BatchSize)
       /\ pos' = 1
       /\ inflight' = Dispatch(getNextBatch(queue, BatchSize), 1)
  ELSE UNCHANGED workerVars

startNoGuard ==
  /\ intervalId' = TRUE
  /\ timers' = timers + 1
  /\ processQueue
  /\ event' = Ev("processQueue", 0, PassResult, {})

\* start(): return when an interval is installed; otherwise setInterval, keep
\* its handle in intervalId, and run one pass.
start ==
  IF intervalId
  THEN /\ UNCHANGED <<intervalId, timers, workerVars>>
       /\ event' = Ev("start", 0, "running", {})
  ELSE /\ intervalId' = TRUE
       /\ timers' = timers + 1
       /\ processQueue
       /\ event' = Ev("processQueue", 0, PassResult, {})

stopAbortsPass ==
  /\ intervalId' = FALSE
  /\ timers' = IF intervalId THEN timers - 1 ELSE timers
  /\ isProcessing' = FALSE
  /\ batch' = <<>>
  /\ pos' = 0
  /\ inflight' = {}

\* stop(): clearInterval of the handle held, if any, and forget it; a pass in
\* flight is left alone.
stop ==
  /\ intervalId' = FALSE
  /\ timers' = IF intervalId THEN timers - 1 ELSE timers
  /\ UNCHANGED workerVars

SettleQueueKeepsPending(q, op, outcome) == q

SettleQueueDropsFailed(q, op, outcome) == markComplete(q, op.id)

\* The try/catch around executeOperation: markComplete when the adapter call
\* resolved, markFailed when it rejected.
SettleQueue(q, op, outcome) ==
  IF WriteRejects(outcome) THEN markFailed(q, op.id) ELSE markComplete(q, op.id)

\* The for loop has another operation to execute.
PassContinues == pos < Len(batch)

\* pullFromRemote on entry: skipped when offline, otherwise the six fetches
\* are issued.
PullEntry == IF online THEN "pulling" ELSE "done"

pullFromRemoteMerges(store, db, failed) ==
  LET out(k) == IF k \in failed THEN "http" ELSE "ok" IN
  IF \E k \in Keys : ReadRejects(k, out(k))
  THEN store
  ELSE [k \in Keys |-> store[k] \cup ReadResult(k, out(k), db)]

\* pullFromRemote after its six fetches have settled; failed is the set of
\* collections whose fetch got no 2xx answer.  Promise.all rejects when one
\* of its promises rejects and the catch block saves nothing.
pullFromRemote(store, db, failed) ==
  LET out(k) == IF k \in failed THEN "http" ELSE "ok" IN
  IF \E k \in Keys : ReadRejects(k, out(k))
  THEN store
  ELSE [k \in Keys |-> ReadResult(k, out(k), db)]

----------------------------------------------------------------------------
(* Initial states: a page load.  The queue and the local collections hold    *)
(* what the previous session left in localStorage: edits made offline,       *)
(* applied locally and still queued.                                         *)

Backlogs ==
  UNION {[1..k -> OpTypes] : k \in 0..MaxOps}

BacklogQueue(types) ==
  [i \in 1..Len(types) |-> QueuedOperation(i, types[i], i, i)]

BacklogLocal(types) ==
  [k \in Keys |-> {i \in 1..Len(types) : KeyOf(types[i]) = k}]

Init ==
  \E types \in Backlogs :
    /\ stored = persistQueue(BacklogQueue(types))
    /\ queue = loadQueue(stored)
    /\ nextId = Len(types) + 1
    /\ local = BacklogLocal(types)
    /\ remote = [k \in Keys |-> RemoteRows]
    /\ online \in BOOLEAN
    /\ intervalId = FALSE
    /\ timers = 0
    /\ isProcessing = FALSE
    /\ batch = <<>>
    /\ pos = 0
    /\ inflight = {}
    /\ bootPc = "new"
    /\ bootOps = {}
    /\ enableRemoteSync = TRUE
    /\ medium = "ok"
    /\ calls = 0
    /\ views = NoViews
    /\ notes = NoNotes
    /\ peerQueue = <<>>
    /\ event = Ev("init", 0, "", {})

----------------------------------------------------------------------------
(* Actions of the engine *)

\* The first effect of useTasks: StorageManager.getInstance constructs the
\* manager (new SyncQueue(), new SyncWorker(...), worker.start()), then
\* loadData awaits syncNow() and calls pullFromRemote().  Nothing suspends
\* between start() and syncNow(), so syncNow() finds what start() left:
\* isProcessing set by the pass it began, or the same offline condition or
\* empty batch; in each case it returns without touching anything.
Bootstrap ==
  /\ bootPc = "new"
  /\ bootOps' = Ids(getNextBatch(queue, Len(queue)))
  /\ start
  /\ bootPc' = PullEntry
  /\ UNCHANGED <<queue, stored, nextId, local, remote, online, facadeVars,
                 tabVars>>

\* StorageManager.addTask / addProject: write to the local collection, then
\* enqueue the operation.  The new entity gets a fresh id; Date.now() has
\* advanced since the previous enqueue.
Mutate(type) ==
  /\ bootPc # "new"
  /\ nextId <= MaxOps
  /\ local' = LocalAdd(local, KeyOf(type), nextId)
  /\ queue' = enqueue(queue, nextId, type, nextId, nextId)
  /\ stored' = persistQueue(queue')
  /\ nextId' = nextId + 1
  /\ event' = Other
  /\ UNCHANGED <<remote, online, intervalId, timers, workerVars, bootPc,
                 bootOps, facadeVars,
                 tabVars>>

\* The callback of an installed interval.
TimerFire ==
  /\ timers > 0
  /\ processQueue
  /\ event' = Ev("tick", 0, PassResult, {})
  /\ UNCHANGED <<queue, stored, nextId, local, remote, online, intervalId,
                 timers, bootPc, bootOps, facadeVars,
                 tabVars>>

\* syncNow of use-tasks.ts, called from the UI.
SyncNow ==
  /\ bootPc # "new"
  /\ processQueue
  /\ event' = Ev("processQueue", 0, PassResult, {})
  /\ UNCHANGED <<queue, stored, nextId, local, remote, online, intervalId,
                 timers, bootPc, bootOps, facadeVars,
                 tabVars>>

StartSync ==
  /\ bootPc # "new"
  /\ start
  /\ UNCHANGED <<queue, stored, nextId, local, remote, online, bootPc, bootOps,
                 facadeVars,
                 tabVars>>

StopSync ==
  /\ bootPc # "new"
  /\ stop
  /\ event' = Ev("stop", 0, "", {})
  /\ UNCHANGED <<queue, stored, nextId, local, remote, online, bootPc, bootOps,
                 facadeVars,
                 tabVars>>

\* The remote call of batch[pos] settles and processQueue resumes: the
\* operation is marked, then either the next one is dispatched or the
\* finally block ends the pass.
Settle(outcome) ==
  /\ inflight # {}
  /\ LET op == batch[pos] IN
       /\ remote' = RemoteApply(remote, op, outcome)
       /\ queue' = SettleQueue(queue, op, outcome)
       /\ stored' = IF WriteRejects(outcome) /\ op.id \notin Ids(queue)
                    THEN stored ELSE persistQueue(queue')
       /\ event' = Ev("settle", op.id, outcome, {})
  /\ IF PassContinues
     THEN /\ pos' = pos + 1
          /\ inflight' = Dispatch(batch, pos + 1)
          /\ UNCHANGED <<isProcessing, batch>>
     ELSE /\ isProcessing' = FALSE
          /\ batch' = <<>>
          /\ pos' = 0
          /\ inflight' = {}
  /\ UNCHANGED <<nextId, local, online, intervalId, timers, bootPc, bootOps,
                 facadeVars,
                 tabVars>>

\* The six fetches of pullFromRemote have settled.
PullFinish(failed) ==
  /\ bootPc = "pulling"
  /\ local' = pullFromRemote(local, remote, failed)
  /\ bootPc' = "done"
  /\ event' = Ev("pull", 0, "", failed)
  /\ UNCHANGED <<queue, stored, nextId, remote, online, intervalId, timers,
                 workerVars, bootOps, facadeVars,
                 tabVars>>

\* retryFailedSync and clearSyncQueue of use-tasks.ts.
RetryFailed ==
  /\ bootPc # "new"
  /\ queue' = retryFailed(queue)
  /\ stored' = persistQueue(queue')
  /\ event' = Ev("retryFailed", 0, "", {})
  /\ UNCHANGED <<nextId, local, remote, online, intervalId, timers, workerVars,
                 bootPc, bootOps, facadeVars,
                 tabVars>>

ClearQueue ==
  /\ bootPc # "new"
  /\ queue' = clearQueue(queue)
  /\ stored' = persistQueue(queue')
  /\ event' = Ev("clearQueue", 0, "", {})
  /\ UNCHANGED <<nextId, local, remote, online, intervalId, timers, workerVars,
                 bootPc, bootOps, facadeVars,
                 tabVars>>

\* The browser goes offline or comes back online.
SetOnline(b) ==
  /\ online # b
  /\ online' = b
  /\ event' = Other
  /\ UNCHANGED <<queue, stored, nextId, local, remote, intervalId, timers,
                 workerVars, bootPc, bootOps, facadeVars,
                 tabVars>>

Next ==
  \/ Bootstrap
  \/ \E type \in OpTypes : Mutate(type)
  \/ TimerFire
  \/ SyncNow
  \/ StartSync
  \/ StopSync
  \/ \E outcome \in Outcomes : Settle(outcome)
  \/ \E failed \in {f \in SUBSET Keys : Cardinality(f) <= MaxFetchFail} :
       PullFinish(failed)
  \/ RetryFailed
  \/ ClearQueue
  \/ \E b \in BOOLEAN : SetOnline(b)

Spec == Init /\ [][Next]_vars

----------------------------------------------------------------------------
(* The worker draining a backlog.  The page was loaded offline with up to    *)
(* MaxBacklog edits of an earlier session in the queue: start() has          *)
(* installed the interval, its first pass and the pull were skipped.  The    *)
(* remote already holds the rows the edits create (the earlier session had   *)
(* posted them and lost the connection before the answers came).  From       *)
(* there the timer fires, the browser goes online and offline, and the       *)
(* remote calls settle.  setInterval keeps firing and every fetch settles:   *)
(* the two fairness conditions.                                              *)

InitD ==
  \E n \in 1..MaxBacklog :
    LET types == [i \in 1..n |-> "ADD_TASK"] IN
    /\ stored = persistQueue(BacklogQueue(types))
    /\ queue = loadQueue(stored)
    /\ nextId = n + 1
    /\ local = BacklogLocal(types)
    /\ remote = [k \in Keys |-> RemoteRows \cup BacklogLocal(types)[k]]
    /\ online = FALSE
    /\ intervalId = TRUE
    /\ timers = 1
    /\ isProcessing = FALSE
    /\ batch = <<>>
    /\ pos = 0
    /\ inflight = {}
    /\ bootPc = "done"
    /\ bootOps = {}
    /\ enableRemoteSync = TRUE
    /\ medium = "ok"
    /\ calls = 0
    /\ views = NoViews
    /\ notes = NoNotes
    /\ peerQueue = <<>>
    /\ event = Ev("init", 0, "", {})

NextD ==
  \/ TimerFire
  \/ \E outcome \in Outcomes : Settle(outcome)
  \/ \E b \in BOOLEAN : SetOnline(b)

SpecDrain ==
  /\ InitD
  /\ [][NextD]_vars
  /\ WF_vars(TimerFire)
  /\ WF_vars(\E outcome \in Outcomes : Settle(outcome))

----------------------------------------------------------------------------
(* A driver of the SyncQueue API alone: any sequence of calls on one queue,  *)
(* with any Date.now() reading at each enqueue (the wall clock may repeat a  *)
(* reading or step back) and any id passed to markComplete and markFailed.   *)
(* batch holds what getNextBatch returned when it was the last call; the    *)
(* driver drops the result at its next call.                                 *)

InitQ ==
  /\ stored = NoItem
  /\ queue = loadQueue(stored)
  /\ nextId = 1
  /\ local = [k \in Keys |-> {}]
  /\ remote = [k \in Keys |-> {}]
  /\ online = TRUE
  /\ intervalId = FALSE
  /\ timers = 0
  /\ isProcessing = FALSE
  /\ batch = <<>>
  /\ pos = 0
  /\ inflight = {}
  /\ bootPc = "new"
  /\ bootOps = {}
  /\ enableRemoteSync = TRUE
  /\ medium = "ok"
  /\ calls = 0
  /\ views = NoViews
  /\ notes = NoNotes
  /\ peerQueue = <<>>
  /\ event = Ev("init", 0, "", {})

driverFrame == <<local, remote, online, intervalId, timers, isProcessing,
                 pos, inflight, bootPc, bootOps, facadeVars,
                 tabVars>>

QEnqueue(ts) ==
  /\ nextId <= MaxOps
  /\ queue' = enqueue(queue, nextId, "ADD_TASK", nextId, ts)
  /\ stored' = persistQueue(queue')
  /\ nextId' = nextId + 1
  /\ event' = Ev("enqueue", nextId, "", {})
  /\ batch' = <<>>
  /\ UNCHANGED driverFrame

QGetNextBatch(n) ==
  /\ batch' = getNextBatch(queue, n)
  /\ event' = Ev("getNextBatch", n, "", {})
  /\ UNCHANGED <<queue, stored, nextId, driverFrame>>

QMarkComplete(id) ==
  /\ queue' = markComplete(queue, id)
  /\ stored' = persistQueue(queue')
  /\ event' = Ev("markComplete", id, "", {})
  /\ batch' = <<>>
  /\ UNCHANGED <<nextId, driverFrame>>

QMarkFailed(id) ==
  /\ \A i \in 1..Len(queue) : queue[i].id = id => queue[i].retries < MaxFail
  /\ queue' = markFailed(queue, id)
  /\ stored' = IF id \in Ids(queue) THEN persistQueue(queue') ELSE stored
  /\ event' = Ev("markFailed", id, "", {})
  /\ batch' = <<>>
  /\ UNCHANGED <<nextId, driverFrame>>

QRetryFailed ==
  /\ queue' = retryFailed(queue)
  /\ stored' = persistQueue(queue')
  /\ event' = Ev("retryFailed", 0, "", {})
  /\ batch' = <<>>
  /\ UNCHANGED <<nextId, driverFrame>>

QClearQueue ==
  /\ queue' = clearQueue(queue)
  /\ stored' = persistQueue(queue')
  /\ event' = Ev("clearQueue", 0, "", {})
  /\ batch' = <<>>
  /\ UNCHANGED <<nextId, driverFrame>>

NextQ ==
  \/ \E ts \in Times : QEnqueue(ts)
  \/ \E n \in 0..(MaxOps + 1) : QGetNextBatch(n)
  \/ \E id \in 1..MaxOps : QMarkComplete(id)
  \/ \E id \in 1..MaxOps : QMarkFailed(id)
  \/ QRetryFailed
  \/ QClearQueue

SpecQueue == InitQ /\ [][NextQ]_vars

----------------------------------------------------------------------------
(* StorageManager: the mutating methods of the facade, called in any order   *)
(* on a manager with remote sync enabled or not, over a medium in any of its *)
(* conditions.  An entity is a record with the fields the methods touch.     *)

Methods ==
  {"addTask", "updateTask", "deleteTask", "reorderTasks",
   "addProject", "updateProject", "deleteProject", "reorderProjects",
   "addTag", "updateTag", "deleteTag",
   "addTaskTag", "removeTaskTag", "addProjectTag", "removeProjectTag",
   "saveTodayTasks"}

\* The LocalStorageAdapter method each facade method calls falls in one of
\* seven shapes.
KindOf(method) ==
  CASE method \in {"addTask", "addProject", "addTag"} -> "add"
    [] method \in {"updateTask", "updateProject", "updateTag"} -> "update"
    [] method \in {"deleteTask", "deleteProject", "deleteTag"} -> "delete"
    [] method \in {"reorderTasks", "reorderProjects"} -> "reorder"
    [] method \in {"addTaskTag", "addProjectTag"} -> "link"
    [] method \in {"removeTaskTag", "removeProjectTag"} -> "unlink"
    [] OTHER -> "save"

\* The localStorage key the method writes.
KeyOfMethod(method) ==
  CASE method \in {"addTask", "updateTask", "deleteTask", "reorderTasks"}
         -> "tasks"
    [] method \in {"addProject", "updateProject", "deleteProject",
                   "reorderProjects"} -> "projects"
    [] method \in {"addTag", "updateTag", "deleteTag"} -> "tags"
    [] method \in {"addTaskTag", "removeTaskTag"} -> "task_tags"
    [] method \in {"addProjectTag", "removeProjectTag"} -> "project_tags"
    [] OTHER -> "today"

OperationTypeAlwaysAddTask(method) == "ADD_TASK"

\* The OperationType the facade method enqueues.
OperationTypeOf(method) ==
  CASE method = "addTask" -> "ADD_TASK"
    [] method = "updateTask" -> "UPDATE_TASK"
    [] method = "deleteTask" -> "DELETE_TASK"
    [] method = "reorderTasks" -> "REORDER_TASKS"
    [] method = "addProject" -> "ADD_PROJECT"
    [] method = "updateProject" -> "UPDATE_PROJECT"
    [] method = "deleteProject" -> "DELETE_PROJECT"
    [] method = "reorderProjects" -> "REORDER_PROJECTS"
    [] method = "addTag" -> "ADD_TAG"
    [] method = "updateTag" -> "UPDATE_TAG"
    [] method = "deleteTag" -> "DELETE_TAG"
    [] method = "addTaskTag" -> "ADD_TASK_TAG"
    [] method = "removeTaskTag" -> "REMOVE_TASK_TAG"
    [] method = "addProjectTag" -> "ADD_PROJECT_TAG"
    [] method = "removeProjectTag" -> "REMOVE_PROJECT_TAG"
    [] OTHER -> "REORDER_TODAY_TASKS"

\* The arguments of a call: the id of the entity (or the owner of a tag
\* link), the tag of a link, the value an update gives to completed, the
\* order a reorder gives, the list saveTodayTasks is given.
Arg(id, tag, completed, order, list) ==
  [id |-> id, tag |-> tag, completed |-> completed, order |-> order,
   list |-> list]

\* The argument sets of a method when k calls have been made: a new entity
\* takes the next unused id, the other methods name any id used so far or
\* the next one.
ArgsOf(method, k) ==
  LET ids == 1..(k + 1) IN
  CASE KindOf(method) = "add" -> {Arg(k + 1, 0, FALSE, 0, {})}
    [] KindOf(method) = "update" ->
         {Arg(i, 0, b, 0, {}) : i \in ids, b \in BOOLEAN}
    [] KindOf(method) = "delete" -> {Arg(i, 0, FALSE, 0, {}) : i \in ids}
    [] KindOf(method) = "reorder" -> {Arg(i, 0, FALSE, k + 1, {}) : i \in ids}
    [] KindOf(method) \in {"link", "unlink"} ->
         {Arg(i, t, FALSE, 0, {}) : i \in ids, t \in ids}
    [] OTHER -> {Arg(0, 0, FALSE, 0, l) : l \in {{}, {k + 1}}}

\* The record a new entity is stored as.
Entity(arg) == [id |-> arg.id, completed |-> arg.completed, order |-> arg.order]

\* What the LocalStorageAdapter method leaves in localStorage.  Each method
\* reads with readFromStorage and writes with writeToStorage.
LocalCall(store, m, method, arg) ==
  LET key == KeyOfMethod(method)
      kind == KindOf(method)
      written ==
        CASE kind = "add" -> LocalAdd(store, key, Entity(arg))
          [] kind = "update" -> LocalUpdate(store, key, arg.id, arg.completed)
          [] kind = "delete" -> LocalDelete(store, key, arg.id)
          [] kind = "reorder" -> LocalReorder(store, key, arg.id, arg.order)
          [] kind = "link" -> LocalAddLink(store, key, arg.id, arg.tag)
          [] kind = "unlink" -> LocalRemoveLink(store, key, arg.id, arg.tag)
          [] OTHER -> LocalSaveToday(store, arg.list)
  IN  writeToStorage(m, store, written)

\* Whether the LocalStorageAdapter method rejects.  Every access to
\* window.localStorage is inside readFromStorage or writeToStorage, which
\* test for window and catch, except the getItem in the console.log that
\* ends saveTodayTasks.
LocalRejects(m, method) == method = "saveTodayTasks" /\ m = "absent"

\* The payload the facade method enqueues.
PayloadOf(method, arg) ==
  CASE KindOf(method) = "add" -> Entity(arg)
    [] KindOf(method) = "update" ->
         [id |-> arg.id, updates |-> [completed |-> arg.completed]]
    [] KindOf(method) = "delete" -> [id |-> arg.id]
    [] KindOf(method) = "reorder" -> <<[id |-> arg.id, order |-> arg.order]>>
    [] KindOf(method) \in {"link", "unlink"} ->
         [owner |-> arg.id, tag |-> arg.tag]
    [] OTHER -> arg.list

InitF ==
  /\ enableRemoteSync \in BOOLEAN
  /\ stored = NoItem
  /\ queue = loadQueue(stored)
  /\ nextId = 1
  /\ local = EmptyStore
  /\ remote = [k \in Keys |-> {}]
  /\ online \in BOOLEAN
  /\ intervalId = enableRemoteSync
  /\ timers = IF enableRemoteSync THEN 1 ELSE 0
  /\ isProcessing = FALSE
  /\ batch = <<>>
  /\ pos = 0
  /\ inflight = {}
  /\ bootPc = "new"
  /\ bootOps = {}
  /\ medium \in Media
  /\ calls = 0
  /\ views = NoViews
  /\ notes = NoNotes
  /\ peerQueue = <<>>
  /\ event = Ev("init", 0, "", {})

\* One facade method from call to settlement: await the LocalStorageAdapter
\* method, then enqueue when remote sync is enabled.  When the awaited
\* promise rejects, the facade method rejects with it and enqueues nothing.
FacadeCall(method, arg) ==
  /\ calls < MaxCalls
  /\ calls' = calls + 1
  /\ local' = LocalCall(local, medium, method, arg)
  /\ IF enableRemoteSync /\ ~LocalRejects(medium, method)
     THEN /\ queue' = enqueue(queue, nextId, OperationTypeOf(method),
                              PayloadOf(method, arg), calls + 1)
          /\ stored' = writeToStorage(medium, stored, persistQueue(queue'))
          /\ nextId' = nextId + 1
     ELSE UNCHANGED <<queue, stored, nextId>>
  /\ event' = [name |-> "call", method |-> method, arg |-> arg,
               info |-> IF LocalRejects(medium, method)
                        THEN "rejected" ELSE "resolved"]
  /\ UNCHANGED <<remote, online, intervalId, timers, workerVars, bootPc,
                 bootOps, enableRemoteSync, medium,
                 tabVars>>

\* getTasks, getProjects, getTags, getTaskTags, getProjectTags and
\* getTodayTasks: the result of the LocalStorageAdapter method of that name.
FacadeRead(key) ==
  /\ calls < MaxCalls
  /\ calls' = calls + 1
  /\ event' = [name |-> "read", key |-> key,
               result |-> readFromStorage(medium, local[key], EmptyStore[key])]
  /\ UNCHANGED <<queue, stored, nextId, local, remote, online, intervalId,
                 timers, workerVars, bootPc, bootOps, enableRemoteSync, medium,
                 tabVars>>

NextF ==
  \/ \E method \in Methods : \E arg \in ArgsOf(method, calls) :
       FacadeCall(method, arg)
  \/ \E key \in Keys : FacadeRead(key)

SpecFacade == InitF /\ [][NextF]_vars

----------------------------------------------------------------------------
(* A driver of the RemoteStorageAdapter API alone: any method with any       *)
(* arguments over tables that hold a few rows, each request it issues        *)
(* answered in any of the three ways.                                        *)

RemoteMethods ==
  {"getTasks", "addTask", "updateTask", "deleteTask", "reorderTasks",
   "getProjects", "addProject", "updateProject", "deleteProject",
   "reorderProjects",
   "getTags", "addTag", "updateTag", "deleteTag",
   "getTaskTags", "addTaskTag", "removeTaskTag",
   "getProjectTags", "addProjectTag", "removeProjectTag",
   "getTodayTasks", "saveTodayTasks"}

ListMethods ==
  {"getTasks", "getProjects", "getTags", "getTaskTags", "getProjectTags",
   "getTodayTasks"}

ReorderMethods == {"reorderTasks", "reorderProjects"}

\* The table a method addresses.
TableOf(method) ==
  CASE method \in {"getTasks", "addTask", "updateTask", "deleteTask",
                   "reorderTasks"} -> "tasks"
    [] method \in {"getProjects", "addProject", "updateProject",
                   "deleteProject", "reorderProjects"} -> "projects"
    [] method \in {"getTags", "addTag", "updateTag", "deleteTag"} -> "tags"
    [] method \in {"getTaskTags", "addTaskTag", "removeTaskTag"} -> "task_tags"
    [] method \in {"getProjectTags", "addProjectTag", "removeProjectTag"}
         -> "project_tags"
    [] OTHER -> "today"

\* The requests a method issues, in the order it issues them: one PATCH per
\* record for a reorder, DELETE then (for a non-empty list) POST for
\* saveTodayTasks, one request for every other method.
RequestCount(method, arg) ==
  CASE method \in ReorderMethods -> Len(arg.recs)
    [] method = "saveTodayTasks" -> IF arg.list = {} THEN 1 ELSE 2
    [] OTHER -> 1

\* Whether the promise the method returns rejects, outs[i] being the answer
\* to its i-th request.  A list method rejects as ReadRejects says.  A
\* reorder awaits Promise.all of its fetches, which rejects on a network
\* error, and throws when a response is not ok.  Every other write method
\* awaits its fetches without looking at the responses.
RemoteRejects(method, outs) ==
  CASE method \in ListMethods -> ReadRejects(TableOf(method), outs[1])
    [] method \in ReorderMethods -> \E i \in 1..Len(outs) : outs[i] # "ok"
    [] method = "saveTodayTasks" ->
         \/ WriteRejects(outs[1])
         \/ Len(outs) = 2 /\ WriteRejects(outs[2])
    [] OTHER -> WriteRejects(outs[1])

ReorderAllOrNothing(db, key, recs, outs) ==
  IF \E i \in 1..Len(outs) : outs[i] # "ok" THEN db
  ELSE [db EXCEPT ![key] =
          {IF \E i \in 1..Len(recs) : recs[i].id = r.id
           THEN [r EXCEPT !.order =
                   recs[CHOOSE i \in 1..Len(recs) : recs[i].id = r.id].order]
           ELSE r : r \in @}]

\* reorderTasks / reorderProjects on the tables: tasks.map issues every PATCH
\* before anything is awaited, and each PATCH answered 2xx has set the order
\* of its row.  The ids of one reorder are distinct.
RemoteReorder(db, key, recs, outs) ==
  [db EXCEPT ![key] =
     {IF \E i \in 1..Len(recs) : recs[i].id = r.id /\ outs[i] = "ok"
      THEN [r EXCEPT !.order =
              recs[CHOOSE i \in 1..Len(recs) : recs[i].id = r.id].order]
      ELSE r : r \in @}]

\* saveTodayTasks on the tables: the DELETE empties today_tasks when it is
\* answered 2xx; unless fetch() rejected, the POST follows and inserts the
\* list when it is answered 2xx.
RemoteSaveToday(db, list, outs) ==
  LET kept == IF outs[1] = "ok" THEN {} ELSE db["today"]
      posted == IF Len(outs) = 2 /\ outs[1] # "net" /\ outs[2] = "ok"
                THEN list ELSE {}
  IN  [db EXCEPT !["today"] = kept \cup posted]

\* What a method leaves in the tables.  A request changes them only when it
\* is answered 2xx.
RemoteCall(db, method, arg, outs) ==
  LET key == TableOf(method) IN
  CASE method \in ListMethods -> db
    [] method \in ReorderMethods -> RemoteReorder(db, key, arg.recs, outs)
    [] method = "saveTodayTasks" -> RemoteSaveToday(db, arg.list, outs)
    [] outs[1] # "ok" -> db
    [] method \in {"addTask", "addProject", "addTag"} ->
         LocalAdd(db, key, Entity(arg))
    [] method \in {"updateTask", "updateProject", "updateTag"} ->
         LocalUpdate(db, key, arg.id, arg.completed)
    [] method \in {"deleteTask", "deleteProject", "deleteTag"} ->
         LocalDelete(db, key, arg.id)
    [] method \in {"addTaskTag", "addProjectTag"} ->
         [db EXCEPT ![key] = @ \cup {[owner |-> arg.id, tag |-> arg.tag]}]
    [] OTHER -> [db EXCEPT ![key] = @ \ {[owner |-> arg.id, tag |-> arg.tag]}]

\* What a list method resolves with.
RemoteResult(db, method, outs) ==
  IF method \in ListMethods /\ ~RemoteRejects(method, outs)
  THEN ReadResult(TableOf(method), outs[1], db)
  ELSE {}

\* The rows of the tables before the calls of the driver.
RemoteIds == 1..MaxReorder

RemoteRow(i) == [id |-> i, completed |-> FALSE, order |-> i]

\* The lists a reorder is called with: records of distinct ids, each with
\* the position it was dragged to.
ReorderLists ==
  {recs \in UNION {[1..n -> [id : RemoteIds, order : RemoteIds]] :
                     n \in 1..MaxReorder} :
     \A i, j \in 1..Len(recs) : i < j => recs[i].id < recs[j].id}

RemoteArg(id, tag, completed, order, list, recs) ==
  [id |-> id, tag |-> tag, completed |-> completed, order |-> order,
   list |-> list, recs |-> recs]

RemoteArgsOf(method) ==
  CASE method \in ListMethods -> {RemoteArg(0, 0, FALSE, 0, {}, <<>>)}
    [] method \in ReorderMethods ->
         {RemoteArg(0, 0, FALSE, 0, {}, recs) : recs \in ReorderLists}
    [] method = "saveTodayTasks" ->
         {RemoteArg(0, 0, FALSE, 0, l, <<>>) : l \in {{}, {2}}}
    [] method \in {"addTask", "addProject", "addTag"} ->
         {RemoteArg(MaxReorder + 1, 0, FALSE, 0, {}, <<>>)}
    [] method \in {"updateTask", "updateProject", "updateTag"} ->
         {RemoteArg(1, 0, TRUE, 0, {}, <<>>)}
    [] method \in {"deleteTask", "deleteProject", "deleteTag"} ->
         {RemoteArg(1, 0, FALSE, 0, {}, <<>>)}
    [] OTHER -> {RemoteArg(1, 1, FALSE, 0, {}, <<>>)}

InitR ==
  /\ stored = NoItem
  /\ queue = loadQueue(stored)
  /\ nextId = 1
  /\ local = [k \in Keys |-> {}]
  /\ remote = [k \in Keys |->
                 CASE k \in {"tasks", "projects", "tags"} ->
                        {RemoteRow(i) : i \in RemoteIds}
                   [] k \in {"task_tags", "project_tags"} ->
                        {[owner |-> 1, tag |-> 1]}
                   [] OTHER -> {1}]
  /\ online = TRUE
  /\ intervalId = FALSE
  /\ timers = 0
  /\ isProcessing = FALSE
  /\ batch = <<>>
  /\ pos = 0
  /\ inflight = {}
  /\ bootPc = "new"
  /\ bootOps = {}
  /\ enableRemoteSync = TRUE
  /\ medium = "ok"
  /\ calls = 0
  /\ views = NoViews
  /\ notes = NoNotes
  /\ peerQueue = <<>>
  /\ event = Ev("init", 0, "", {})

\* One adapter method from call to settlement.
AdapterCall(method, arg, outs) ==
  /\ calls < MaxRemoteCalls
  /\ calls' = calls + 1
  /\ remote' = RemoteCall(remote, method, arg, outs)
  /\ event' = [name |-> "remote", method |-> method, arg |-> arg,
               outs |-> outs,
               info |-> IF RemoteRejects(method, outs)
                        THEN "rejected" ELSE "resolved",
               result |-> RemoteResult(remote, method, outs)]
  /\ UNCHANGED <<queue, stored, nextId, local, online, intervalId, timers,
                 workerVars, bootPc, bootOps, enableRemoteSync, medium,
                 tabVars>>

NextR ==
  \E method \in RemoteMethods : \E arg \in RemoteArgsOf(method) :
    \E outs \in [1..RequestCount(method, arg) -> Outcomes] :
      AdapterCall(method, arg, outs)

SpecRemote == InitR /\ [][NextR]_vars

----------------------------------------------------------------------------
(* The wire translation of RemoteStorageAdapter.  An object is a function    *)
(* from the names of the fields it has to their values; a field whose value  *)
(* is undefined is a field the object does not have (JSON.stringify drops    *)
(* it).  The specification takes one entity of any kind to the wire (the     *)
(* body of the POST) and back (the row of the GET).                          *)

EntityKinds == {"Task", "Project", "Tag", "TaskTag", "ProjectTag", "TodayTask"}

\* The fields of src/lib/types.ts that every entity of the kind has.
RequiredFields(kind) ==
  CASE kind = "Task" ->
         {"id", "title", "completed", "order", "isDaily", "createdAt"}
    [] kind = "Project" -> {"id", "name", "completed", "order", "createdAt"}
    [] kind = "Tag" -> {"id", "name", "createdAt"}
    [] kind = "TaskTag" -> {"taskId", "tagId", "createdAt"}
    [] kind = "ProjectTag" -> {"projectId", "tagId", "createdAt"}
    [] OTHER -> {"taskId", "order"}

\* The fields declared with a question mark.
OptionalFields(kind) ==
  CASE kind = "Task" ->
         {"description", "dueDate", "projectId", "parentTaskId", "timePeriod",
          "timeLeft", "lastCompleted", "completionHistory", "tags"}
    [] kind = "Project" -> {"description", "tags"}
    [] kind = "Tag" -> {"color"}
    [] OTHER -> {}

\* key.replace(/[A-Z]/g, letter => "_" + letter.toLowerCase()) on the field
\* names of the entity types.
SnakeKey(key) ==
  CASE key = "dueDate" -> "due_date"
    [] key = "projectId" -> "project_id"
    [] key = "parentTaskId" -> "parent_task_id"
    [] key = "isDaily" -> "is_daily"
    [] key = "timePeriod" -> "time_period"
    [] key = "timeLeft" -> "time_left"
    [] key = "lastCompleted" -> "last_completed"
    [] key = "completionHistory" -> "completion_history"
    [] key = "createdAt" -> "created_at"
    [] key = "taskId" -> "task_id"
    [] key = "tagId" -> "tag_id"
    [] OTHER -> key

\* toSnakeCase: every entry of the object, under the converted key.
toSnakeCase(obj) ==
  [w \in {SnakeKey(k) : k \in DOMAIN obj} |->
     obj[CHOOSE k \in DOMAIN obj : SnakeKey(k) = w]]

\* The fields taskToDb, projectToDb and tagToDb assign again by name after
\* toSnakeCase.
SpecialFields(kind) ==
  CASE kind = "Task" ->
         {"dueDate", "projectId", "parentTaskId", "timePeriod", "timeLeft",
          "lastCompleted", "completionHistory", "isDaily", "createdAt"}
    [] OTHER -> {"createdAt"}

\* taskToDb / projectToDb / tagToDb.
entityToDb(kind, obj) ==
  LET db == toSnakeCase(obj)
      special == SpecialFields(kind) \cap DOMAIN obj
  IN  [w \in DOMAIN db \cup {SnakeKey(f) : f \in special} |->
         IF \E f \in special : SnakeKey(f) = w
         THEN obj[CHOOSE f \in special : SnakeKey(f) = w]
         ELSE db[w]]

\* The body addTaskTag / addProjectTag post: the two ids they are given and
\* the time of the call.
linkToDb(kind, obj, now) ==
  LET owner == IF kind = "TaskTag" THEN "taskId" ELSE "projectId" IN
  [w \in {SnakeKey(owner), "tag_id", "created_at"} |->
     CASE w = SnakeKey(owner) -> obj[owner]
       [] w = "tag_id" -> obj["tagId"]
       [] OTHER -> now]

\* The rows saveTodayTasks posts.
todayToDb(obj) ==
  [w \in {"task_id", "order"} |->
     IF w = "task_id" THEN obj["taskId"] ELSE obj["order"]]

ToDb(kind, obj, now) ==
  CASE kind \in {"Task", "Project", "Tag"} -> entityToDb(kind, obj)
    [] kind \in {"TaskTag", "ProjectTag"} -> linkToDb(kind, obj, now)
    [] OTHER -> todayToDb(obj)

\* The fields dbToTask, dbToProject, dbToTag, dbToTaskTag, dbToProjectTag and
\* dbToTodayTask build their result from.
FieldsRead(kind) ==
  CASE kind = "Task" ->
         {"id", "title", "description", "completed", "dueDate", "projectId",
          "parentTaskId", "order", "isDaily", "timePeriod", "timeLeft",
          "lastCompleted", "completionHistory", "createdAt"}
    [] kind = "Project" ->
         {"id", "name", "description", "completed", "order", "createdAt"}
    [] kind = "Tag" -> {"id", "name", "color", "createdAt"}
    [] kind = "TaskTag" -> {"taskId", "tagId", "createdAt"}
    [] kind = "ProjectTag" -> {"projectId", "tagId", "createdAt"}
    [] OTHER -> {"taskId", "order"}

\* dbToTask, ...: each field of the result is read from the row under its
\* snake_case name.
FromDb(kind, row) ==
  [f \in {g \in FieldsRead(kind) : SnakeKey(g) \in DOMAIN row} |->
     row[SnakeKey(f)]]

WireValues == 1..MaxVal

\* The entities of a kind: the required fields, any of the optional ones.
Entities(kind) ==
  {[f \in RequiredFields(kind) \cup opt |-> v] :
     opt \in SUBSET OptionalFields(kind), v \in WireValues}

InitW ==
  /\ stored = NoItem
  /\ queue = loadQueue(stored)
  /\ nextId = 1
  /\ local = [k \in Keys |-> {}]
  /\ remote = [k \in Keys |-> {}]
  /\ online = TRUE
  /\ intervalId = FALSE
  /\ timers = 0
  /\ isProcessing = FALSE
  /\ batch = <<>>
  /\ pos = 0
  /\ inflight = {}
  /\ bootPc = "new"
  /\ bootOps = {}
  /\ enableRemoteSync = TRUE
  /\ medium = "ok"
  /\ calls = 0
  /\ views = NoViews
  /\ notes = NoNotes
  /\ peerQueue = <<>>
  /\ \E kind \in EntityKinds : \E obj \in Entities(kind) :
       event = [name |-> "entity", kind |-> kind, value |-> obj]

\* The entity is translated for a POST made at time now.
ToWire(now) ==
  /\ event.name = "entity"
  /\ event' = [name |-> "wire", kind |-> event.kind, value |-> event.value,
               wire |-> ToDb(event.kind, event.value, now)]
  /\ UNCHANGED <<queue, stored, nextId, local, remote, online, intervalId,
                 timers, workerVars, bootPc, bootOps, facadeVars,
                 tabVars>>

\* The row comes back in the answer to a GET and is translated.
FromWire ==
  /\ event.name = "wire"
  /\ event' = [name |-> "back", kind |-> event.kind, value |-> event.value,
               wire |-> event.wire, back |-> FromDb(event.kind, event.wire)]
  /\ UNCHANGED <<queue, stored, nextId, local, remote, online, intervalId,
                 timers, workerVars, bootPc, bootOps, facadeVars,
                 tabVars>>

NextW ==
  \/ \E now \in WireValues : ToWire(now)
  \/ FromWire

SpecWire == InitW /\ [][NextW]_vars

----------------------------------------------------------------------------
(* Two browser tabs on one localStorage.  Each tab has its own               *)
(* StorageManager (here with remote sync disabled) and its own Redux store,  *)
(* and listens to the storage events the browser queues for it when the      *)
(* other tab has changed an item.                                            *)

TabMethods ==
  {"addTask", "updateTask", "deleteTask", "addProject", "addTag",
   "addTaskTag", "addProjectTag", "saveTodayTasks"}

OtherTab(tab) == IF tab = "A" THEN "B" ELSE "A"

\* Whether the LocalStorageAdapter method reaches its writeToStorage: an
\* update only when it found the record, a link insertion only when the pair
\* is new.
Writes(store, method, arg) ==
  CASE KindOf(method) = "update" ->
         \E r \in store[KeyOfMethod(method)] : r.id = arg.id
    [] KindOf(method) = "link" ->
         Link(arg.id, arg.tag) \notin
           {store[KeyOfMethod(method)][i] :
              i \in 1..Len(store[KeyOfMethod(method)])}
    [] OTHER -> TRUE

\* The storage event the browser queues for the other documents when
\* setItem has changed the item: the key and the new text.  An item holding
\* the default collection may not have been there before, in which case
\* writing the default is a change too.
StorageEvents(m, old, new, method, arg) ==
  LET key == KeyOfMethod(method) IN
  IF /\ m = "ok"
     /\ Writes(old, method, arg)
     /\ new[key] # old[key] \/ old[key] = EmptyStore[key]
  THEN <<[key |-> key, newValue |-> new[key]]>>
  ELSE <<>>

\* The reducers use-tasks.ts dispatches with each StorageManager call: they
\* push, merge, filter and replace as the LocalStorageAdapter methods do;
\* deleting a task also drops its tag links from the store.
ViewCall(view, method, arg) ==
  LET v == LocalCall(view, "ok", method, arg) IN
  IF method = "deleteTask"
  THEN [v EXCEPT !["task_tags"] = SelectSeq(@, LAMBDA l : l.owner # arg.id)]
  ELSE v

handleStorageChangeIgnores(view, e) == view

\* handleStorageChange: for each of the six keys, when newValue is not empty,
\* the slice of that key is set to JSON.parse(newValue).
handleStorageChange(view, e) ==
  IF e.key \in Keys THEN [view EXCEPT ![e.key] = e.newValue] ELSE view

InitT ==
  /\ stored = NoItem
  /\ queue = loadQueue(stored)
  /\ nextId = 1
  /\ local = EmptyStore
  /\ remote = [k \in Keys |-> {}]
  /\ online = TRUE
  /\ intervalId = FALSE
  /\ timers = 0
  /\ isProcessing = FALSE
  /\ batch = <<>>
  /\ pos = 0
  /\ inflight = {}
  /\ bootPc = "new"
  /\ bootOps = {}
  /\ enableRemoteSync = FALSE
  /\ medium \in {"ok", "full"}
  /\ calls = 0
  /\ views = NoViews
  /\ notes = NoNotes
  /\ peerQueue = <<>>
  /\ event = Ev("init", 0, "", {})

\* A mutation made in one tab: the reducer, then the StorageManager method.
TabCall(tab, method, arg) ==
  /\ calls < MaxCalls
  /\ calls' = calls + 1
  /\ views' = [views EXCEPT ![tab] = ViewCall(@, method, arg)]
  /\ local' = LocalCall(local, medium, method, arg)
  /\ notes' = [notes EXCEPT ![OtherTab(tab)] =
                 @ \o StorageEvents(medium, local, local', method, arg)]
  /\ event' = [name |-> "call", tab |-> tab, method |-> method, arg |-> arg,
               info |-> IF LocalRejects(medium, method)
                        THEN "rejected" ELSE "resolved"]
  /\ UNCHANGED <<queue, stored, nextId, remote, online, intervalId, timers,
                 workerVars, bootPc, bootOps, enableRemoteSync, medium,
                 peerQueue>>

\* A read made in one tab through its StorageManager.
TabRead(tab, key) ==
  /\ calls < MaxCalls
  /\ calls' = calls + 1
  /\ event' = [name |-> "read", tab |-> tab, key |-> key,
               result |-> readFromStorage(medium, local[key], EmptyStore[key])]
  /\ UNCHANGED <<queue, stored, nextId, local, remote, online, intervalId,
                 timers, workerVars, bootPc, bootOps, enableRemoteSync, medium,
                 tabVars>>

\* The listener of a tab runs for the oldest storage event queued for it.
TabNotify(tab) ==
  /\ notes[tab] # <<>>
  /\ views' = [views EXCEPT ![tab] = handleStorageChange(@, Head(notes[tab]))]
  /\ notes' = [notes EXCEPT ![tab] = Tail(@)]
  /\ event' = [name |-> "notify", tab |-> tab, key |-> Head(notes[tab]).key,
               newValue |-> Head(notes[tab]).newValue]
  /\ UNCHANGED <<queue, stored, nextId, local, remote, online, intervalId,
                 timers, workerVars, bootPc, bootOps, facadeVars, peerQueue>>

NextT ==
  \/ \E tab \in Tabs : \E method \in TabMethods :
       \E arg \in ArgsOf(method, calls) : TabCall(tab, method, arg)
  \/ \E tab \in Tabs : \E key \in Keys : TabRead(tab, key)
  \/ \E tab \in Tabs : TabNotify(tab)

SpecTabs == InitT /\ [][NextT]_vars

----------------------------------------------------------------------------
(* Two SyncQueue instances on one localStorage: the managers of two tabs,    *)
(* each constructed by a page load (loadQueue reads the item once) and then  *)
(* called in any order.  queue is the array of the first tab, peerQueue the  *)
(* array of the second; every call persists the array of its own instance.   *)
(* generateId() joins Date.now() and a random string, so the two instances   *)
(* never hand out the same id.                                               *)

QueueOf(t) == IF t = "A" THEN queue ELSE peerQueue

\* The call leaves q in the array of the instance of tab t and persists it
\* when written says so; the array of the other instance is not touched.
InstanceStep(t, q, written, name, id) ==
  /\ queue' = IF t = "A" THEN q ELSE queue
  /\ peerQueue' = IF t = "A" THEN peerQueue ELSE q
  /\ stored' = IF written THEN persistQueue(q) ELSE stored
  /\ event' = Ev(name, id, t, {})
  /\ UNCHANGED <<local, remote, online, intervalId, timers, workerVars,
                 bootPc, bootOps, facadeVars, views, notes>>

InitP ==
  /\ stored = NoItem
  /\ queue = loadQueue(stored)
  /\ peerQueue = loadQueue(stored)
  /\ nextId = 1
  /\ local = [k \in Keys |-> {}]
  /\ remote = [k \in Keys |-> {}]
  /\ online = TRUE
  /\ intervalId = FALSE
  /\ timers = 0
  /\ isProcessing = FALSE
  /\ batch = <<>>
  /\ pos = 0
  /\ inflight = {}
  /\ bootPc = "new"
  /\ bootOps = {}
  /\ enableRemoteSync = TRUE
  /\ medium = "ok"
  /\ calls = 0
  /\ views = NoViews
  /\ notes = NoNotes
  /\ event = Ev("init", 0, "", {})

\* A page load in tab t: new SyncQueue().
PConstruct(t) ==
  /\ InstanceStep(t, loadQueue(stored), FALSE, "construct", 0)
  /\ UNCHANGED nextId

PEnqueue(t) ==
  /\ nextId <= MaxOps
  /\ InstanceStep(t, enqueue(QueueOf(t), nextId, "ADD_TASK", nextId, nextId),
                  TRUE, "enqueue", nextId)
  /\ nextId' = nextId + 1

PMarkComplete(t, id) ==
  /\ InstanceStep(t, markComplete(QueueOf(t), id), TRUE, "markComplete", id)
  /\ UNCHANGED nextId

\* The worker of a tab calls markFailed for an operation it dispatched, one
\* that its instance held with retries < maxRetries.
PMarkFailed(t, id) ==
  /\ \A i \in 1..Len(QueueOf(t)) :
       QueueOf(t)[i].id = id => QueueOf(t)[i].retries < maxRetries
  /\ InstanceStep(t, markFailed(QueueOf(t), id), id \in Ids(QueueOf(t)),
                  "markFailed", id)
  /\ UNCHANGED nextId

PRetryFailed(t) ==
  /\ InstanceStep(t, retryFailed(QueueOf(t)), TRUE, "retryFailed", 0)
  /\ UNCHANGED nextId

PClearQueue(t) ==
  /\ InstanceStep(t, clearQueue(QueueOf(t)), TRUE, "clearQueue", 0)
  /\ UNCHANGED nextId

NextP ==
  \E t \in Tabs :
    \/ PConstruct(t)
    \/ PEnqueue(t)
    \/ \E id \in 1..MaxOps : PMarkComplete(t, id)
    \/ \E id \in 1..MaxOps : PMarkFailed(t, id)
    \/ PRetryFailed(t)
    \/ PClearQueue(t)

SpecPeers == InitP /\ [][NextP]_vars

----------------------------------------------------------------------------
(* A page load over any local content.  The queue is empty; each local       *)
(* collection is empty or holds a record that the remote table does not      *)
(* have.  The manager is constructed, loadData runs its pull, and the        *)
(* browser goes online and offline.                                          *)

LocalRows == {1}

InitL ==
  /\ stored = NoItem
  /\ queue = loadQueue(stored)
  /\ nextId = 1
  /\ local \in [Keys -> {{}, LocalRows}]
  /\ remote = [k \in Keys |-> RemoteRows]
  /\ online \in BOOLEAN
  /\ intervalId = FALSE
  /\ timers = 0
  /\ isProcessing = FALSE
  /\ batch = <<>>
  /\ pos = 0
  /\ inflight = {}
  /\ bootPc = "new"
  /\ bootOps = {}
  /\ enableRemoteSync = TRUE
  /\ medium = "ok"
  /\ calls = 0
  /\ views = NoViews
  /\ notes = NoNotes
  /\ peerQueue = <<>>
  /\ event = Ev("init", 0, "", {})

NextL ==
  \/ Bootstrap
  \/ \E failed \in {f \in SUBSET Keys : Cardinality(f) <= MaxFetchFail} :
       PullFinish(failed)
  \/ \E b \in BOOLEAN : SetOnline(b)

SpecLoad == InitL /\ [][NextL]_vars

----------------------------------------------------------------------------
(* LocalStorageAdapter.reorderTasks and reorderProjects on the arrays they   *)
(* read and write.  Here the tasks and projects items are arrays of records  *)
(* in stored order; a page load finds any array of up to MaxReorder records  *)
(* under one of the two keys (ids may repeat: addTask pushes without         *)
(* looking), and the reorder methods are called with any list of up to       *)
(* MaxReorder records, over a medium in any of its conditions.  The methods  *)
(* keep no state between calls, so one call is made on each array.           *)

ReorderKeys == {"tasks", "projects"}

\* The records a stored array holds, and the records of a reorder list (the
\* entities as the caller's list holds them).
StoredRecords ==
  {[id |-> i, completed |-> c, order |-> o] :
     i \in 1..2, c \in BOOLEAN, o \in 0..1}

ListRecords ==
  {[id |-> i, completed |-> TRUE, order |-> o] : i \in 1..2, o \in 0..1}

ArraysOf(S) == UNION {[1..n -> S] : n \in 0..MaxReorder}

reorderTasksReplaces(allTasks, reorderedTasks) == reorderedTasks

\* reorderTasks / reorderProjects: new Map(list.map(t => [t.id, t])) keeps the
\* last record of the list for an id; every stored record whose id has one
\* is copied with that record's order, every other one is kept.
reorderTasks(allTasks, reorderedTasks) ==
  LET hits(id) == {j \in 1..Len(reorderedTasks) : reorderedTasks[j].id = id}
      reordered(id) ==
        reorderedTasks[CHOOSE j \in hits(id) : \A h \in hits(id) : h <= j]
  IN  [i \in 1..Len(allTasks) |->
         IF hits(allTasks[i].id) # {}
         THEN [allTasks[i] EXCEPT !.order = reordered(allTasks[i].id).order]
         ELSE allTasks[i]]

InitO ==
  /\ stored = NoItem
  /\ queue = loadQueue(stored)
  /\ nextId = 1
  /\ \E key \in ReorderKeys : \E all \in ArraysOf(StoredRecords) :
       local = [k \in Keys |-> IF k = key THEN all ELSE <<>>]
  /\ remote = [k \in Keys |-> {}]
  /\ online = TRUE
  /\ intervalId = FALSE
  /\ timers = 0
  /\ isProcessing = FALSE
  /\ batch = <<>>
  /\ pos = 0
  /\ inflight = {}
  /\ bootPc = "new"
  /\ bootOps = {}
  /\ enableRemoteSync = FALSE
  /\ medium \in Media
  /\ calls = 0
  /\ views = NoViews
  /\ notes = NoNotes
  /\ peerQueue = <<>>
  /\ event = Ev("init", 0, "", {})

\* The call of reorderTasks (key "tasks") or reorderProjects ("projects")
\* made on the array the page load found.
LocalReorderCall(key, list) ==
  /\ event.name = "init"
  /\ calls' = calls + 1
  /\ local' = [local EXCEPT ![key] =
                 writeToStorage(medium, @,
                   reorderTasks(readFromStorage(medium, @, <<>>), list))]
  /\ event' = [name |-> "reorder", key |-> key, arg |-> list,
               old |-> local[key]]
  /\ UNCHANGED <<queue, stored, nextId, remote, online, intervalId, timers,
                 workerVars, bootPc, bootOps, enableRemoteSync, medium,
                 tabVars>>

NextO ==
  \E key \in ReorderKeys : \E list \in ArraysOf(ListRecords) :
    LocalReorderCall(key, list)

SpecReorder == InitO /\ [][NextO]_vars

----------------------------------------------------------------------------
(* Properties *)

IsPending(q, id) == \E i \in 1..Len(q) : q[i].id = id /\ q[i].status = "pending"

Index(q, id) == CHOOSE i \in 1..Len(q) : q[i].id = id

\* C1: when the bootstrap issues the fetches of pullFromRemote, no operation
\* that was pending when the bootstrap started is still pending or has its
\* remote call unsettled: the queue has been drained first.
C1_PullAfterDrain ==
  [][bootPc # "pulling" /\ bootPc' = "pulling"
       => \A id \in bootOps' : ~IsPending(queue', id) /\ id \notin inflight']_vars

\* C2: when the pull of an online bootstrap has completed, every edit that
\* was applied locally and still queued when the bootstrap started is still
\* in its local collection.
C2_EditsSurviveBootstrap ==
  event.name = "pull" => \A id \in bootOps : id \in local["tasks"]

\* C3: when the remote answers the write call of a queued operation with a
\* non-success HTTP status, the operation stays in the queue, failed, with
\* its retry counter incremented.
C3_HttpErrorMarksFailed ==
  [][event'.name = "settle" /\ event'.info = "http" /\ event'.id \in Ids(queue)
       => /\ event'.id \in Ids(queue')
          /\ queue'[Index(queue', event'.id)].status = "failed"
          /\ queue'[Index(queue', event'.id)].retries
               = queue[Index(queue, event'.id)].retries + 1]_vars

\* C4: in a pass every operation of the batch is attempted whatever happened
\* to the ones before it.  When the call of a queued operation resolves, the
\* operation is removed and the rest of the queue is kept; when it throws,
\* the operation stays where it is, failed, with retries increased by
\* exactly 1, and the rest of the queue is kept.  In both cases the pass goes
\* on with the next operation of the batch, and ends normally, clearing
\* isProcessing, after the last one.
C4_FailureDoesNotAbortBatch ==
  [][event'.name = "settle" /\ event'.id \in Ids(queue)
       => LET id == event'.id
              k == Index(queue, id)
          IN  /\ event'.info = "net" =>
                   /\ Len(queue') = Len(queue)
                   /\ queue'[k] = [queue[k] EXCEPT !.status = "failed",
                                                   !.retries = queue[k].retries + 1]
                   /\ \A i \in 1..Len(queue) : i # k => queue'[i] = queue[i]
              /\ event'.info # "net" =>
                   /\ Len(queue') = Len(queue) - 1
                   /\ \A i \in 1..Len(queue') :
                        queue'[i] = IF i < k THEN queue[i] ELSE queue[i + 1]
              /\ batch[pos].id = id
              /\ pos < Len(batch) =>
                   /\ isProcessing'
                   /\ batch' = batch
                   /\ pos' = pos + 1
                   /\ inflight' = {batch[pos + 1].id}
              /\ pos = Len(batch) => ~isProcessing' /\ inflight' = {}]_vars

\* C4 witness: the first operation of a batch threw and is failed with
\* retries = 1, and the second one has been dispatched.
C4_Witness ==
  /\ isProcessing
  /\ pos = 2
  /\ event = Ev("settle", batch[1].id, "net", {})
  /\ inflight = {batch[2].id}
  /\ \E i \in 1..Len(queue) :
       queue[i].id = batch[1].id /\ queue[i].status = "failed" /\ queue[i].retries = 1

\* C5: a processQueue() or syncNow() call made while a pass is in progress
\* returns at once: it pulls no batch, issues no remote call and changes
\* neither the queue nor the pass in progress.
C5_OnePassAtATime ==
  [][event'.name \in {"processQueue", "tick"} /\ isProcessing
       => UNCHANGED <<isProcessing, batch, pos, inflight, queue, stored,
                      local, remote>>]_vars

\* C5 witness: a call has just been turned away by the guard in the middle
\* of a pass.
C5_Witness ==
  /\ event = Ev("processQueue", 0, "busy", {})
  /\ isProcessing
  /\ pos = 2

\* C6: at most one remote call of the worker is in flight, it is the call of
\* the operation at the current position of the batch, and positions are
\* taken one by one in batch order: position i + 1 is dispatched in the step
\* in which the call of position i settles.
C6_SequentialDispatch ==
  /\ [](/\ Cardinality(inflight) <= 1
        /\ inflight # {} => isProcessing /\ pos \in 1..Len(batch)
                                         /\ inflight = {batch[pos].id})
  /\ [][pos' # pos /\ pos' # 0
          => /\ pos' = pos + 1
             /\ pos > 0 => event' = Ev("settle", batch[pos].id, event'.info, {})
                           /\ batch' = batch]_vars

\* C6 witness: the second operation of a batch is in flight after the first
\* one settled.
C6_Witness ==
  /\ isProcessing
  /\ pos = 2
  /\ Len(batch) = 2
  /\ inflight = {batch[2].id}
  /\ event.name = "settle" /\ event.id = batch[1].id

\* C7: when the "projects" fetch of a pull fails and the "tasks" fetch
\* succeeds, the local tasks collection is replaced by the remote one and the
\* local projects collection is left as it was.
C7_PullIsolatesFailedFetch ==
  [][bootPc = "pulling" /\ event'.name = "pull"
       /\ "projects" \in event'.keys /\ "tasks" \notin event'.keys
       => /\ local'["tasks"] = remote["tasks"]
          /\ local'["projects"] = local["projects"]]_vars

\* Position i of the queue is enqueued before position j: older reading, or
\* the same reading and inserted first.
Older(q, i, j) ==
  \/ q[i].timestamp < q[j].timestamp
  \/ q[i].timestamp = q[j].timestamp /\ i < j

\* C8: getNextBatch(n) returns at most n operations, all pending, in
\* non-decreasing timestamp order with equal timestamps in insertion order,
\* and they are the n oldest pending operations of the queue.
C8_NextBatchOldestFirst ==
  event.name = "getNextBatch" =>
    LET n == event.id
        P == {i \in 1..Len(queue) : queue[i].status = "pending"}
    IN  /\ Len(batch) <= n
        /\ Len(batch) = Min(n, Cardinality(P))
        /\ \A i \in 1..Len(batch) :
             batch[i].id \in Ids(queue) /\ Index(queue, batch[i].id) \in P
                                        /\ batch[i] = queue[Index(queue, batch[i].id)]
        /\ \A i, j \in 1..Len(batch) :
             i < j => Older(queue, Index(queue, batch[i].id), Index(queue, batch[j].id))
        /\ \A i \in 1..Len(batch) : \A p \in P :
             queue[p].id \notin Ids(batch) => Older(queue, Index(queue, batch[i].id), p)

\* C8 witness: two pending operations whose queue order is not their
\* timestamp order, and a batch of size 1 that holds the older one.
C8_Witness ==
  /\ event = Ev("getNextBatch", 1, "", {})
  /\ Len(queue) = 2
  /\ queue[1].status = "pending" /\ queue[2].status = "pending"
  /\ queue[1].timestamp > queue[2].timestamp
  /\ batch = <<queue[2]>>

\* C9: markComplete(id) removes exactly the operation with that id and keeps
\* every other operation, in order and unchanged; when no operation has that
\* id (a repeated call, an unknown id) the queue is unchanged.
C9_MarkCompleteIdempotent ==
  [][event'.name = "markComplete"
       => LET id == event'.id IN
          IF id \in Ids(queue)
          THEN LET k == Index(queue, id) IN
               /\ Len(queue') = Len(queue) - 1
               /\ \A i \in 1..Len(queue') :
                    queue'[i] = IF i < k THEN queue[i] ELSE queue[i + 1]
               /\ loadQueue(stored') = queue'
          ELSE queue' = queue /\ loadQueue(stored') = queue]_vars

\* C9 witness: markComplete has removed an operation that had been enqueued
\* and another operation is still queued.
C9_Witness ==
  /\ event.name = "markComplete"
  /\ event.id < nextId
  /\ event.id \notin Ids(queue)
  /\ queue # <<>>

\* C10: retryFailed() sets the status of the failed operations with
\* retries < 3 to pending and changes nothing else: same operations in the
\* same order, same retry counters, pending operations still pending, and
\* failed operations with retries >= 3 still failed.
C10_RetryFailedBelowBudget ==
  [][event'.name = "retryFailed"
       => /\ Len(queue') = Len(queue)
          /\ \A i \in 1..Len(queue) :
               /\ queue'[i].id = queue[i].id
               /\ queue'[i].type = queue[i].type
               /\ queue'[i].payload = queue[i].payload
               /\ queue'[i].timestamp = queue[i].timestamp
               /\ queue'[i].retries = queue[i].retries
               /\ queue'[i].status =
                    IF queue[i].status = "failed" /\ queue[i].retries < 3
                    THEN "pending" ELSE queue[i].status]_vars

\* C10 witness: after retryFailed() one operation is still failed with
\* retries = 3 and another one, failed once, is pending again.
C10_Witness ==
  /\ event.name = "retryFailed"
  /\ \E i, j \in 1..Len(queue) :
       /\ queue[i].status = "failed" /\ queue[i].retries = 3
       /\ queue[j].status = "pending" /\ queue[j].retries = 1

\* C11: markFailed(id) on a queued operation sets its status to failed and
\* increases its retries by exactly 1, keeps its id, type, payload and
\* timestamp and its position, and leaves every other operation as it was;
\* with an id that is not in the queue it changes neither the queue nor the
\* persisted item.
C11_MarkFailedKeepsOperation ==
  [][event'.name = "markFailed"
       => LET id == event'.id IN
          IF id \in Ids(queue)
          THEN LET k == Index(queue, id) IN
               /\ Len(queue') = Len(queue)
               /\ queue'[k].status = "failed"
               /\ queue'[k].retries = queue[k].retries + 1
               /\ queue'[k].id = queue[k].id
               /\ queue'[k].type = queue[k].type
               /\ queue'[k].payload = queue[k].payload
               /\ queue'[k].timestamp = queue[k].timestamp
               /\ \A i \in 1..Len(queue) : i # k => queue'[i] = queue[i]
          ELSE queue' = queue /\ stored' = stored]_vars

\* C11 witness: markFailed has failed the first of two queued operations a
\* second time and the other one is still pending with retries = 0.
C11_Witness ==
  /\ event.name = "markFailed"
  /\ Len(queue) = 2
  /\ queue[1].id = event.id
  /\ queue[1].status = "failed" /\ queue[1].retries = 2
  /\ queue[2].status = "pending" /\ queue[2].retries = 0

\* C12: after any sequence of enqueue, markComplete, markFailed, retryFailed
\* and clearQueue calls, a SyncQueue constructed over the same medium holds
\* the same operations in the same order with the same status and retries as
\* the instance that made the calls, and an operation just enqueued is in
\* the batch the fresh instance returns from getNextBatch(10).
C12_QueueDurable ==
  /\ [](loadQueue(stored) = queue)
  /\ [][event'.name = "enqueue"
          => event'.id \in Ids(getNextBatch(loadQueue(stored'), BatchSize))]_vars

\* C12 witness: an operation has just been enqueued behind a failed one, and
\* the persisted item holds both.
C12_Witness ==
  /\ event.name = "enqueue"
  /\ stored.present
  /\ Len(stored.text) = 2
  /\ stored.text[1].status = "failed"
  /\ stored.text[2].id = event.id /\ stored.text[2].status = "pending"

\* The operation type that matches a facade method: the verb and the entity
\* of the method name.
MatchingType ==
  [addTask |-> "ADD_TASK", updateTask |-> "UPDATE_TASK",
   deleteTask |-> "DELETE_TASK", reorderTasks |-> "REORDER_TASKS",
   addProject |-> "ADD_PROJECT", updateProject |-> "UPDATE_PROJECT",
   deleteProject |-> "DELETE_PROJECT", reorderProjects |-> "REORDER_PROJECTS",
   addTag |-> "ADD_TAG", updateTag |-> "UPDATE_TAG", deleteTag |-> "DELETE_TAG",
   addTaskTag |-> "ADD_TASK_TAG", removeTaskTag |-> "REMOVE_TASK_TAG",
   addProjectTag |-> "ADD_PROJECT_TAG",
   removeProjectTag |-> "REMOVE_PROJECT_TAG",
   saveTodayTasks |-> "REORDER_TODAY_TASKS"]

\* The links an array of links holds.
LinksOf(list) == {list[i] : i \in 1..Len(list)}

\* The collection new holds the mutation of the call applied to old.
Applied(old, new, method, arg) ==
  LET pair == [owner |-> arg.id, tag |-> arg.tag] IN
  CASE method \in {"addTask", "addProject", "addTag"} ->
         /\ old \subseteq new
         /\ \E r \in new : r.id = arg.id
         /\ \A r \in new \ old : r.id = arg.id
    [] method \in {"updateTask", "updateProject", "updateTag"} ->
         /\ {r.id : r \in new} = {r.id : r \in old}
         /\ \A r \in new : r.id = arg.id => r.completed = arg.completed
         /\ \A r \in new : r.id # arg.id => r \in old
    [] method \in {"deleteTask", "deleteProject", "deleteTag"} ->
         /\ \A r \in new : r.id # arg.id /\ r \in old
         /\ \A r \in old : r.id # arg.id => r \in new
    [] method \in {"reorderTasks", "reorderProjects"} ->
         /\ {r.id : r \in new} = {r.id : r \in old}
         /\ \A r \in new : r.id = arg.id => r.order = arg.order
         /\ \A r \in new : r.id # arg.id => r \in old
    [] method \in {"addTaskTag", "addProjectTag"} ->
         LinksOf(new) = LinksOf(old) \cup {pair}
    [] method \in {"removeTaskTag", "removeProjectTag"} ->
         LinksOf(new) = LinksOf(old) \ {pair}
    [] OTHER -> new = arg.list

C14_MutationsNeverReject ==
  event.name = "call" => event.info = "resolved"

IsFailed(q, id) == \E i \in 1..Len(q) : q[i].id = id /\ q[i].status = "failed"

\* C15: a pass attempted while navigator.onLine is false is skipped: it
\* issues no remote call, takes no batch, leaves the queue and the persisted
\* item as they are (no operation removed, no status or retry counter
\* changed), and isProcessing, false before the attempt, is false after it.
C15_OfflinePassSkipped ==
  [][event'.name \in {"processQueue", "tick"} /\ ~online
       => /\ UNCHANGED <<queue, stored, remote, inflight, batch, pos>>
          /\ isProcessing' = isProcessing
          /\ ~isProcessing => event'.info = "offline"]_vars

\* C15 witness: the periodic trigger has fired offline with a pending
\* operation in the queue and no pass in progress, and nothing was started.
C15_Witness ==
  /\ event = Ev("tick", 0, "offline", {})
  /\ ~online
  /\ ~isProcessing
  /\ inflight = {}
  /\ \E i \in 1..Len(queue) : queue[i].status = "pending"

\* C16: an operation that is failed with retries = 3 is left in the queue,
\* at its position relative to the others, failed with retries = 3, by every
\* step other than clearQueue(): worker passes, syncNow(), retryFailed(),
\* settlements and new edits.
C16_ExhaustedStaysFailed ==
  [][\A i \in 1..Len(queue) :
       queue[i].status = "failed" /\ queue[i].retries = maxRetries
       /\ event'.name # "clearQueue"
       => /\ \E j \in 1..Len(queue') : queue'[j] = queue[i]
          /\ IsFailed(loadQueue(stored'), queue[i].id)
          /\ queue[i].id \notin inflight']_vars

\* C16 witness: retryFailed() has just been called and an operation is still
\* failed with retries = 3 while the periodic trigger is installed.
C16_Witness ==
  /\ event.name = "retryFailed"
  /\ intervalId
  /\ \E i \in 1..Len(queue) :
       queue[i].status = "failed" /\ queue[i].retries = maxRetries

C18_StartIdempotent ==
  /\ [](timers = IF intervalId THEN 1 ELSE 0)
  /\ [][timers' <= 1]_vars
  /\ [][~intervalId /\ intervalId'
          => /\ timers' = timers + 1
             /\ event' = Ev("processQueue", 0, PassResult, {})
             /\ (~isProcessing /\ online /\ getPendingCount(queue) > 0)
                  => isProcessing' /\ inflight' # {}]_vars
  /\ [][event'.name = "start"
          => intervalId
             /\ UNCHANGED <<intervalId, timers, isProcessing, batch, pos,
                             inflight, queue, stored, remote>>]_vars

\* C18 witness: start() has been called on a running worker in the middle
\* of a pass.
C18_Witness ==
  /\ event = Ev("start", 0, "running", {})
  /\ intervalId
  /\ timers = 1
  /\ isProcessing

\* C19: the periodic trigger fires only while an interval is installed, and
\* stop() leaves none installed; stop() changes nothing of a pass in flight,
\* and after stop() the pass goes on as before: each settlement resolves its
\* operation (removed, or failed when the call threw) and dispatches the
\* next operation of the batch, and the pass ends after the last one.
C19_StopIsCooperative ==
  /\ [][event'.name = "tick" => intervalId /\ timers > 0]_vars
  /\ [][event'.name = "stop"
          => /\ ~intervalId' /\ timers' = 0
             /\ UNCHANGED <<isProcessing, batch, pos, inflight, queue,
                             stored, remote>>]_vars
  /\ [][~intervalId /\ event'.name = "settle"
          => /\ event'.id = batch[pos].id
             /\ event'.id \in Ids(queue) =>
                  IF event'.info = "net"
                  THEN IsFailed(queue', event'.id)
                  ELSE event'.id \notin Ids(queue')
             /\ pos < Len(batch) =>
                  /\ isProcessing'
                  /\ batch' = batch
                  /\ pos' = pos + 1
                  /\ inflight' = {batch[pos + 1].id}
             /\ pos = Len(batch) => ~isProcessing' /\ inflight' = {}]_vars

\* C19 witness: stop() has just been called while the first operation of a
\* batch of two is in flight.
C19_Witness ==
  /\ event.name = "stop"
  /\ ~intervalId
  /\ isProcessing
  /\ Len(batch) = 2
  /\ pos = 1
  /\ inflight = {batch[1].id}

\* The operations of the pass in progress whose remote call has not
\* completed: the one in flight and those after it in the batch.
Unresolved == IF isProcessing THEN {batch[i].id : i \in pos..Len(batch)} ELSE {}

\* A SyncQueue constructed over the medium as it is now would hold the
\* operation as pending and return it from getNextBatch.
Replayable(id) ==
  /\ IsPending(loadQueue(stored), id)
  /\ id \in Ids(getNextBatch(loadQueue(stored), BatchSize))

C21_NonSuccessRaises ==
  event.name = "remote" /\ (\E i \in DOMAIN event.outs : event.outs[i] = "http")
    => event.info = "rejected"

\* C22: a reorder has no cross-record atomicity.  reorderTasks and
\* reorderProjects issue one update per record; the call rejects exactly when
\* one of them is not answered with a success status; every row whose update
\* succeeded has the order of its record, also when the call rejects; the
\* rows whose update did not succeed, the rows not listed and the other
\* tables are as they were.
C22_ReorderNotAtomic ==
  [][event'.name = "remote" /\ event'.method \in ReorderMethods
       => LET key == TableOf(event'.method)
              recs == event'.arg.recs
              outs == event'.outs
              Listed(r, i) == recs[i].id = r.id
          IN  /\ Len(outs) = Len(recs)
              /\ event'.info = "rejected"
                   <=> \E i \in 1..Len(outs) : outs[i] # "ok"
              /\ \A r \in remote[key] : \A i \in 1..Len(recs) :
                   Listed(r, i) /\ outs[i] = "ok"
                     => [r EXCEPT !.order = recs[i].order] \in remote'[key]
              /\ \A r \in remote[key] :
                   (\A i \in 1..Len(recs) : Listed(r, i) => outs[i] # "ok")
                     => r \in remote'[key]
              /\ Cardinality(remote'[key]) = Cardinality(remote[key])
              /\ \A k \in Keys \ {key} : remote'[k] = remote[k]]_vars

\* C22 witness: reorderTasks of two records rejected because the second
\* update was answered with an error status, while the first record's row
\* has moved to the order the call gave it.
C22_Witness ==
  /\ event.name = "remote" /\ event.method = "reorderTasks"
  /\ event.info = "rejected"
  /\ Len(event.arg.recs) = 2
  /\ event.outs = <<"ok", "http">>
  /\ event.arg.recs[1].order # event.arg.recs[1].id
  /\ \E r \in remote["tasks"] :
       r.id = event.arg.recs[1].id /\ r.order = event.arg.recs[1].order
  /\ \E r \in remote["tasks"] :
       r.id = event.arg.recs[2].id /\ r.order # event.arg.recs[2].order

\* C23: the wire translation is round-trip-safe: for an entity of any kind,
\* translating it to the wire and the result back gives an entity that has
\* every field the original had, with the same value.
C23_WireRoundTrip ==
  event.name = "back"
    => \A f \in DOMAIN event.value :
         f \in DOMAIN event.back /\ event.back[f] = event.value[f]

\* C25: a LocalStorageAdapter update or delete of an id the collection does
\* not hold is a silent no-op: every stored collection is what it was and the
\* call does not reject.
C25_UnknownIdNoOp ==
  [][/\ event'.name = "call"
     /\ KindOf(event'.method) \in {"update", "delete"}
     /\ event'.arg.id \notin {r.id : r \in local[KeyOfMethod(event'.method)]}
     => local' = local /\ event'.info = "resolved"]_vars

\* C25 witness: the task collection holds task 1 and the last call was an
\* update or a delete of task 2.
C25_Witness ==
  /\ event.name = "call"
  /\ event.method \in {"updateTask", "deleteTask"}
  /\ event.arg.id = 2
  /\ medium = "ok"
  /\ local["tasks"] = {[id |-> 1, completed |-> FALSE, order |-> 0]}

\* C26: tag links are deduplicated at insertion: whatever sequence of
\* addTaskTag / removeTaskTag / addProjectTag / removeProjectTag calls is
\* made from empty collections, each link collection holds at most one
\* record per (owner, tag) pair, and adding a pair that is there leaves the
\* collection as it was.
C26_LinksDeduplicated ==
  /\ [](\A key \in LinkKeys : \A i, j \in 1..Len(local[key]) :
          local[key][i] = local[key][j] => i = j)
  /\ [][/\ event'.name = "call"
        /\ KindOf(event'.method) = "link"
        /\ Link(event'.arg.id, event'.arg.tag)
             \in LinksOf(local[KeyOfMethod(event'.method)])
        => local' = local]_vars

\* C26 witness: the same pair was added twice and the collection holds it
\* once.
C26_Witness ==
  /\ event.name = "call" /\ event.method = "addTaskTag"
  /\ calls = 2
  /\ nextId = 3
  /\ queue[1].type = "ADD_TASK_TAG" /\ queue[1].payload = queue[2].payload
  /\ local["task_tags"] = <<Link(event.arg.id, event.arg.tag)>>

\* C27: a StorageManager read returns the content of that collection in
\* localStorage and nothing else, whether the browser is online or not,
\* whatever the queue holds and whether a worker runs; it issues no remote
\* call and leaves localStorage, the queue and the remote tables as they were.
C27_ReadsAreLocal ==
  [][event'.name = "read"
       => /\ event'.result = local[event'.key]
          /\ local' = local
          /\ queue' = queue /\ stored' = stored
          /\ remote' = remote /\ inflight' = inflight
          /\ isProcessing' = isProcessing]_vars

\* C27 witness: offline, with a worker installed and an operation queued,
\* getTasks returned the task stored locally, which the remote does not hold.
C27_Witness ==
  /\ event.name = "read" /\ event.key = "tasks"
  /\ ~online /\ intervalId
  /\ Len(queue) = 1
  /\ event.result = {[id |-> 1, completed |-> FALSE, order |-> 0]}
  /\ remote["tasks"] = {}

\* C24: with two tabs on one localStorage, a mutation made through the
\* StorageManager of one tab is visible in the other: the storage event the
\* other tab is sent carries the collection as the mutation left it, a read
\* through the other tab's StorageManager returns the collection localStorage
\* holds, and when the other tab handles the event its in-memory collection
\* becomes exactly the value notified, whatever it held (no merge), while its
\* other collections, the first tab's store and localStorage stay as they
\* were.
C24_MutationVisibleInOtherTab ==
  /\ [][event'.name = "call" /\ event'.info = "resolved" /\ medium = "ok"
          => LET key == KeyOfMethod(event'.method)
                 other == OtherTab(event'.tab)
             IN  /\ Applied(local[key], local'[key], event'.method, event'.arg)
                 /\ local'[key] # local[key]
                      => /\ Len(notes'[other]) = Len(notes[other]) + 1
                         /\ notes'[other][Len(notes'[other])] =
                              [key |-> key, newValue |-> local'[key]]]_vars
  /\ [][event'.name = "read" => event'.result = local[event'.key]]_vars
  /\ [][event'.name = "notify"
          => LET tab == event'.tab
                 key == event'.key
             IN  /\ views'[tab][key] = Head(notes[tab]).newValue
                 /\ \A k \in Keys \ {key} : views'[tab][k] = views[tab][k]
                 /\ views'[OtherTab(tab)] = views[OtherTab(tab)]
                 /\ local' = local]_vars

\* C24 witness: tab B had added task 1, tab A deleted it, and B has handled
\* the storage event of the deletion: B's store holds no task any more, as
\* localStorage does.
C24_Witness ==
  /\ event.name = "notify" /\ event.tab = "B" /\ event.key = "tasks"
  /\ event.newValue = {}
  /\ views["B"]["tasks"] = {}
  /\ views["A"]["tasks"] = {}
  /\ local["tasks"] = {}
  /\ notes["A"] # <<>>
  /\ notes["A"][1].key = "tasks"
  /\ notes["A"][1].newValue = {[id |-> 1, completed |-> FALSE, order |-> 0]}

\* C28: every operation in the queue, in memory and as persisted, has status
\* pending or failed, so the pending count and the failed count that
\* getSyncStatus() reports add up to the length of the queue.
C28_StatusPendingOrFailed ==
  /\ \A i \in 1..Len(queue) : queue[i].status \in {"pending", "failed"}
  /\ \A i \in 1..Len(loadQueue(stored)) :
       loadQueue(stored)[i].status \in {"pending", "failed"}
  /\ getPendingCount(queue) + getFailedCount(queue) = Len(queue)

\* C28 witness: the queue holds a failed operation and a pending one while a
\* pass is executing the pending one.
C28_Witness ==
  /\ Len(queue) = 2
  /\ getFailedCount(queue) = 1 /\ getPendingCount(queue) = 1
  /\ isProcessing /\ inflight # {}
  /\ \E i \in 1..2 : queue[i].id \in inflight /\ queue[i].status = "pending"

\* C30: after a pullFromRemote() whose six fetches all succeed (the saves
\* succeed on a medium that takes writes), every local collection is exactly
\* the collection fetched from the remote: what was only local is gone.
C30_PullReplacesWholesale ==
  [][event'.name = "pull" /\ event'.keys = {}
       => \A k \in Keys : local'[k] = remote[k]]_vars

\* C30 witness: a pull succeeded while an ADD_TASK was still queued: the
\* task it created locally is no longer in the local collection, which holds
\* the remote rows only.
C30_Witness ==
  /\ event.name = "pull" /\ event.keys = {}
  /\ local["tasks"] = RemoteRows
  /\ \E i \in 1..Len(queue) :
       queue[i].type = "ADD_TASK" /\ queue[i].payload \notin local["tasks"]

\* C29: the worker drains the queue.  With the worker running, the timer
\* firing again and again and every remote call settling, if the browser is
\* online from some point on, then eventually no operation of the backlog is
\* pending any more, and an operation leaves the pending state (removed, or
\* marked failed) only when the call dispatched for it to the remote
\* settles; with more than BatchSize operations queued as with fewer.
C29_WorkerDrainsQueue ==
  /\ [][\A id \in 1..MaxBacklog :
          IsPending(queue, id) /\ ~IsPending(queue', id) => id \in inflight]_vars
  /\ <>[]online => <>[](getPendingCount(queue) = 0)

\* C29 witness: a backlog of more than BatchSize operations took two passes:
\* the last operation has been settled in a pass of its own and nothing is
\* pending.
C29_Witness ==
  /\ nextId > BatchSize + 1
  /\ event.name = "settle" /\ event.id = nextId - 1
  /\ ~isProcessing
  /\ getPendingCount(queue) = 0
  /\ getFailedCount(queue) > 0

\* C31: in every reachable state of a queue driven by the worker and by
\* retryFailed(), every operation has 0 <= retries <= 3, every pending
\* operation has retries < 3 and every failed operation has retries >= 1.
\* An operation is dispatched only while it is pending with retries < 3, and
\* each of its remote calls that throws adds exactly 1 to its retries: no
\* operation has more than 3 dispatches that end in failure.
C31_RetriesWithinBudget ==
  /\ [](\A i \in 1..Len(queue) :
          /\ queue[i].retries \in 0..maxRetries
          /\ queue[i].status = "pending" => queue[i].retries < maxRetries
          /\ queue[i].status = "failed" => queue[i].retries >= 1)
  /\ [][\A id \in inflight' \ inflight :
          /\ batch'[pos'].id = id
          /\ batch'[pos'].retries < maxRetries
          /\ id \in Ids(queue') =>
               /\ queue'[Index(queue', id)].status = "pending"
               /\ queue'[Index(queue', id)].retries = batch'[pos'].retries]_vars
  /\ [][event'.name = "settle" /\ WriteRejects(event'.info)
        /\ event'.id \in Ids(queue)
          => /\ queue'[Index(queue', event'.id)].retries
                  = queue[Index(queue, event'.id)].retries + 1
             /\ queue'[Index(queue', event'.id)].retries <= maxRetries]_vars

\* C31 witness: the third remote call of an operation has just thrown: it is
\* failed with retries = 3, and retryFailed() had made it pending twice.
C31_Witness ==
  /\ event.name = "settle" /\ event.info = "net"
  /\ \E i \in 1..Len(queue) :
       /\ queue[i].id = event.id
       /\ queue[i].status = "failed"
       /\ queue[i].retries = maxRetries

\* C32: the in-progress guard is always released.  isSyncing() is true
\* exactly while a pass has the remote call of an operation of its batch
\* unsettled; the settlement of the last operation of a batch clears it
\* whether that call and the ones before it resolved or threw; a pass that
\* finds nothing pending, or the browser offline, leaves it cleared; and a
\* pass attempted online with an operation pending and no call of an earlier
\* pass unsettled is never turned away.
C32_GuardReleased ==
  /\ [](isProcessing <=> inflight # {})
  /\ [](isProcessing => pos \in 1..Len(batch) /\ inflight = {batch[pos].id})
  /\ [][event'.name = "settle" /\ pos = Len(batch) => ~isProcessing']_vars
  /\ [][event'.name \in {"processQueue", "tick"}
        /\ event'.info \in {"empty", "offline"} => ~isProcessing']_vars
  /\ [][event'.name \in {"processQueue", "tick"}
        /\ inflight = {} /\ online /\ getPendingCount(queue) > 0
          => event'.info = "started" /\ isProcessing' /\ inflight' # {}]_vars

\* C32 witness: a pass ended with its operation failed, and a later pass has
\* been started by the timer for an operation enqueued since.
C32_Witness ==
  /\ event = Ev("tick", 0, "started", {})
  /\ isProcessing
  /\ Len(queue) = 2
  /\ queue[1].status = "failed" /\ queue[1].retries = 1
  /\ queue[2].status = "pending"
  /\ inflight = {queue[2].id}

\* C33: remote application respects enqueue order across passes.  Ids are
\* handed out in enqueue order and the row of an operation is in the remote
\* table exactly when its remote call has succeeded: whenever the remote
\* call of an operation b is issued and unsettled, the call of every
\* operation enqueued before b has succeeded.
C33_RemoteOrderRespected ==
  \A b \in inflight : \A a \in 1..(b - 1) : a \in remote["tasks"]

\* C34: an operation whose remote call succeeded is never dispatched again.
\* The row of an operation is in the remote table exactly when a call of it
\* has succeeded: no operation in flight has its row there, so no call
\* succeeds a second time; and an operation whose call resolved is out of
\* the queue and out of what is left of the batch, whatever timer passes,
\* syncNow(), enqueue and retryFailed() calls are interleaved.
C34_AtMostOneSuccess ==
  /\ [](\A id \in inflight : id \notin remote["tasks"])
  /\ [][event'.name = "settle" /\ event'.info = "ok"
          => event'.id \notin remote["tasks"] /\ event'.id \in remote'["tasks"]]_vars
  /\ [][event'.name = "settle" /\ ~WriteRejects(event'.info)
          => /\ event'.id \notin Ids(queue')
             /\ event'.id \notin inflight'
             /\ isProcessing' =>
                  \A i \in pos'..Len(batch') : batch'[i].id # event'.id]_vars

\* C34 witness: the call of operation 1 has succeeded, retryFailed() was
\* called, and the pass started next is executing operation 2.
C34_Witness ==
  /\ 1 \in remote["tasks"]
  /\ event.name \in {"tick", "processQueue"} /\ event.info = "started"
  /\ inflight = {2}
  /\ Len(queue) = 1
  /\ queue[1].id = 2 /\ queue[1].retries = 1

\* C35: with two SyncQueue instances over the same medium, no enqueued
\* operation is lost: an enqueue, markComplete, markFailed or retryFailed
\* call of either instance keeps in the persisted queue every operation that
\* was there, other than the operation the call is about.
C35_NoOperationLost ==
  [][event'.name \in {"enqueue", "markComplete", "markFailed", "retryFailed"}
       => \A id \in Ids(loadQueue(stored)) :
            id # event'.id => id \in Ids(loadQueue(stored'))]_vars

\* C36: after clearQueue() has returned, the worker issues no remote call
\* for an operation that was in the queue before the clear.  Ids are never
\* reused and clearQueue() is the only call that removes an operation whose
\* call has not been issued: every operation the worker dispatches is in the
\* queue at that moment, also when a pass was in flight at the clear.
C36_NoDispatchAfterClear ==
  [][\A id \in inflight' \ inflight : id \in Ids(queue')]_vars

\* C37: pullFromRemote() never overwrites a local collection with data that
\* was not fetched: each collection whose fetch failed is the same after the
\* pull as before it.
C37_FailedFetchKeepsLocal ==
  [][event'.name = "pull" => \A k \in event'.keys : local'[k] = local[k]]_vars

\* C38: a local mutation made through the StorageManager while a
\* pullFromRemote() is in flight is still in LocalStore once the pull has
\* completed.  Edits are possible from the bootstrap on and the pull of an
\* online bootstrap is in flight until its step: when it has completed,
\* every task created since the page load (every id handed out that was not
\* in the backlog of the load) is in the local tasks collection.
C38_MutationSurvivesPull ==
  event.name = "pull" =>
    \A id \in 1..(nextId - 1) : id \notin bootOps => id \in local["tasks"]

\* C39: a LocalStore reorder changes only the order field of the stored
\* records whose id is in the reorder list.  The array keeps its length,
\* every record keeps its position, its id and its other fields, a record
\* whose id is not in the list is unchanged, and the other collections are
\* not touched.
C39_ReorderFrame ==
  [][event'.name = "reorder"
       => LET key == event'.key
              listed == {event'.arg[j].id : j \in 1..Len(event'.arg)}
          IN  /\ Len(local'[key]) = Len(local[key])
              /\ \A i \in 1..Len(local[key]) :
                   /\ local'[key][i].id = local[key][i].id
                   /\ local'[key][i].completed = local[key][i].completed
                   /\ DOMAIN local'[key][i] = DOMAIN local[key][i]
                   /\ local[key][i].id \notin listed
                        => local'[key][i] = local[key][i]
              /\ \A k \in Keys \ {key} : local'[k] = local[k]]_vars

\* C39 witness: reorderTasks was called with a list naming record 1 only,
\* over an array holding records 2 and 1 in that order: record 1, still
\* second and still not completed, has the order of the list; record 2 is as
\* it was.
C39_Witness ==
  /\ event.name = "reorder" /\ event.key = "tasks"
  /\ event.arg = <<[id |-> 1, completed |-> TRUE, order |-> 1]>>
  /\ event.old = <<[id |-> 2, completed |-> TRUE, order |-> 0],
                   [id |-> 1, completed |-> FALSE, order |-> 0]>>
  /\ local["tasks"] = <<[id |-> 2, completed |-> TRUE, order |-> 0],
                        [id |-> 1, completed |-> FALSE, order |-> 1]>>

====
